---- MODULE Spec2Model ----
(***************************************************************************)
(* State-machine model of contracts/Farming_Sim_FHE.sol (FarmingSimFHE):   *)
(* access control, rate limiting, the batch lifecycle, the encrypted       *)
(* accumulators and the decryption request / callback exchange.            *)
(*                                                                         *)
(* Every external function is one action, enabled when the call succeeds.  *)
(* For each function an operator <function>Result gives the outcome of a   *)
(* call in the current state: "ok" or the reason of the revert, found by   *)
(* running the modifiers and the require statements in the order of the    *)
(* code.  A reverted call changes nothing and so is no step.               *)
(***************************************************************************)
EXTENDS Integers, Sequences, FiniteSets, Bags, TLC

----------------------------------------------------------------------------
(* Bounds of the model *)

\* number of blocks mined after the deployment block
MaxTicks == 1
\* largest value currentModelVersion takes
MaxVersion == 2
\* number of successful openBatch calls
MaxBatches == 1
\* the same two bounds of the specification of the long lifecycles
MaxTicksLong == 2
MaxBatchesLong == 2
\* number of events the calls emit in a logged deployment
MaxEmitted == 5
\* number of decryption requests when the owner sets any cooldown interval
MaxRequests == 2

----------------------------------------------------------------------------
(* Program constants *)

MIN_INTERVAL == 5
DefaultCooldown == 10
DefaultBatchSizeLimit == 5

\* block.timestamp of the deployment block: late enough for the first call of
\* every actor to pass the cooldown check
StartTime == 2 * DefaultCooldown
\* seconds between two blocks
BlockInterval == DefaultCooldown

----------------------------------------------------------------------------
(* Addresses *)

Deployer == "a1"
Actors == {"a1", "a2"}
\* address(0)
NoAddr == "0x0"

\* arguments passed to setCooldownInterval
CooldownChoices == {DefaultCooldown, 2 * DefaultCooldown}
\* arguments passed to setCooldownInterval when the owner sets any interval:
\* none, the largest below MIN_INTERVAL, MIN_INTERVAL and the default
CooldownArgs == {0, MIN_INTERVAL - 1, MIN_INTERVAL, DefaultCooldown}

\* arguments passed to setBatchSizeLimit: the invalid one and the smallest
\* valid one
LimitChoices == {0, 1}

----------------------------------------------------------------------------
(* uint32 / euint32.  A 32-bit unsigned integer is a pair <<hi, lo>> of     *)
(* 16-bit limbs, value hi * 2^16 + lo, so that addition wraps at 2^32.      *)

Limb == 2^16

U32(n) == <<n \div Limb, n % Limb>>

Max32 == <<Limb - 1, Limb - 1>>

\* uint32 addition modulo 2^32
Add32(a, b) ==
    LET lo == a[2] + b[2]
        hi == a[1] + b[1] + (lo \div Limb)
    IN  <<hi % Limb, lo % Limb>>

\* An euint32 is a handle (bytes32) naming a ciphertext the coprocessor holds.
\* The handle of a result is derived from the operation and the handles of its
\* operands, so a handle is modelled as the expression it names:
\*   <<"enc", hi, lo>>   an externally supplied encryption of <<hi, lo>>
\*   <<"triv", hi, lo>>  FHE.asEuint32(<<hi, lo>>)
\*   <<"add", l, r>>     FHE.add(l, r)
\* and the handle 0 (uninitialized) as the empty tuple.
Uninitialized == <<>>

\* an externally supplied encryption of x
Encrypt(x) == <<"enc", x[1], x[2]>>

\* FHE.asEuint32(0)
asEuint32Zero == <<"triv", 0, 0>>

\* FHE.isInitialized
isInitialized(x) == x # Uninitialized

\* FHE.add on euint32
FheAdd(a, b) == <<"add", a, b>>

\* the cleartext the decryption oracle returns for a handle
RECURSIVE Decrypt(_)
Decrypt(x) ==
    IF x = Uninitialized THEN U32(0)
    ELSE IF x[1] = "add" THEN Add32(Decrypt(x[2]), Decrypt(x[3]))
    ELSE <<x[2], x[3]>>

\* FHE.toBytes32
toBytes32(x) == x

\* keccak256(abi.encode(cts, address(this)))
hashCiphertexts(cts) == <<cts, "this">>

\* bytes32(0)
ZeroHash == <<>>

\* the (yield, resistance, growthRate) cleartexts submitters encrypt
Contributions ==
    { <<U32(3), U32(4), U32(0)>>,
      <<U32(5), U32(2), U32(0)>>,
      <<Max32, Max32, U32(2)>> }

----------------------------------------------------------------------------
(* Identifiers *)

\* uint256(keccak256(abi.encodePacked(address(this), version, timestamp)))
BatchIdOf(version, timestamp) == <<version, timestamp>>

\* the batch identifier 0 (the default of DecryptionContext.batchId); no
\* batch is stored under it
ZeroId == <<0, 0>>

ZeroBatch ==
    [exists |-> FALSE, closed |-> FALSE, createdAt |-> 0, closedAt |-> 0,
     modelVersion |-> 0]

ZeroContext ==
    [batchId |-> ZeroId, modelVersion |-> 0, stateHash |-> ZeroHash,
     processed |-> FALSE, requester |-> NoAddr]

----------------------------------------------------------------------------
(* Events.  Fields an event does not carry hold -1, ZeroId, NoAddr or 0.     *)
(* The events of the batch lifecycle, of the decryption protocol and of the  *)
(* model version are always in the log; those of the administration are in   *)
(* the log of the deployments whose log keeps them (logAdmin).               *)

Event(name, requestId, batchId, account, modelVersion, totalScore) ==
    [name |-> name, requestId |-> requestId, batchId |-> batchId,
     account |-> account, modelVersion |-> modelVersion,
     totalScore |-> totalScore, previous |-> NoAddr, oldValue |-> 0,
     newValue |-> 0]

\* an event of the administration: the account it names, the account it
\* replaces, and the old and the new value of a setting
AdminEvent(name, account, previous, oldValue, newValue) ==
    [Event(name, -1, ZeroId, account, 0, U32(0)) EXCEPT
         !.previous = previous, !.oldValue = oldValue, !.newValue = newValue]

OwnershipTransferred(previousOwner, newOwner) ==
    AdminEvent("OwnershipTransferred", newOwner, previousOwner, 0, 0)
ProviderAdded(provider) == AdminEvent("ProviderAdded", provider, NoAddr, 0, 0)
ProviderRemoved(provider) ==
    AdminEvent("ProviderRemoved", provider, NoAddr, 0, 0)
PausedEvent(account) == AdminEvent("Paused", account, NoAddr, 0, 0)
Unpaused(account) == AdminEvent("Unpaused", account, NoAddr, 0, 0)
CooldownUpdated(oldInterval, newInterval) ==
    AdminEvent("CooldownUpdated", NoAddr, NoAddr, oldInterval, newInterval)
BatchSizeLimitUpdated(oldLimit, newLimit) ==
    AdminEvent("BatchSizeLimitUpdated", NoAddr, NoAddr, oldLimit, newLimit)

\* ModelVersionUpdated(oldVersion, newVersion): modelVersion is the new one
ModelVersionUpdated(oldVersion, newVersion) ==
    Event("ModelVersionUpdated", -1, ZeroId, NoAddr, newVersion, U32(0))
BatchOpened(batchId, modelVersion) ==
    Event("BatchOpened", -1, batchId, NoAddr, modelVersion, U32(0))
BatchClosedEvent(batchId) ==
    Event("BatchClosed", -1, batchId, NoAddr, 0, U32(0))
CropSubmitted(provider, batchId, modelVersion) ==
    Event("CropSubmitted", -1, batchId, provider, modelVersion, U32(0))
DecryptionRequested(requestId, batchId, requester) ==
    Event("DecryptionRequested", requestId, batchId, requester, 0, U32(0))
DecryptionCompleted(requestId, batchId, totalScore) ==
    Event("DecryptionCompleted", requestId, batchId, NoAddr, 0, totalScore)

----------------------------------------------------------------------------
(* State *)

VARIABLES
    owner,                \* address public owner
    paused,               \* bool public paused
    cooldownInterval,     \* uint256 public cooldownInterval
    batchSizeLimit,       \* uint256 public batchSizeLimit
    currentModelVersion,  \* uint256 public currentModelVersion
    providers,            \* mapping(address => bool)
    lastActionAt,         \* mapping(address => uint256)
    batches,              \* mapping(uint256 => Batch), the written keys
    decryptionContexts,   \* mapping(uint256 => DecryptionContext), written keys
    batchAccumulators,    \* mapping(uint256 => mapping(uint256 => euint32))
    batchSizes,           \* mapping(uint256 => mapping(uint256 => uint256))
    batchVersions,        \* mapping(uint256 => mapping(uint256 => uint256))
    counterRequest,       \* the FHE library's request counter
    requestedHandles,     \* the handles dispatched to the oracle, by request
    now,                  \* block.timestamp
    events,               \* the recorded events emitted so far
    accepted,             \* per (batchId, version): bag of accepted contributions
    logAdmin              \* whether the log keeps the administration's events

\* what the owner sets, and what the deployment fixes
config ==
    <<owner, paused, cooldownInterval, batchSizeLimit, providers, logAdmin>>

vars ==
    <<owner, paused, cooldownInterval, batchSizeLimit, currentModelVersion,
      providers, lastActionAt, batches, decryptionContexts, batchAccumulators,
      batchSizes, batchVersions, counterRequest, requestedHandles, now, events,
      accepted, logAdmin>>

\* reading a mapping: a key never written holds the zero value
Read(map, key, zero) == IF key \in DOMAIN map THEN map[key] ELSE zero

\* writing a mapping
Write(map, key, value) == (key :> value) @@ map

BatchAt(batchId) == Read(batches, batchId, ZeroBatch)
ContextAt(requestId) == Read(decryptionContexts, requestId, ZeroContext)
AccumulatorAt(batchId, version) ==
    Read(batchAccumulators, <<batchId, version>>, Uninitialized)
SizeAt(batchId, version) == Read(batchSizes, <<batchId, version>>, 0)
AcceptedAt(batchId, version) == Read(accepted, <<batchId, version>>, EmptyBag)

\* the batch identifiers a caller passes: the existing ones and one that
\* does not exist
BatchArgs == DOMAIN batches \cup {ZeroId}

\* the request identifiers a caller passes: the issued ones and the next one
RequestArgs == 0..counterRequest

\* require(condition, reason); rest
require(condition, reason, rest) == IF condition THEN rest ELSE reason

\* _requireInitialized(x, tag); rest
requireInitialized(x, rest) == IF ~isInitialized(x) THEN "InvalidState" ELSE rest

\* the number of events emitted after the constructor's
Emitted == Len(events) - (IF logAdmin THEN 2 ELSE 1)

CountEvents(name) ==
    Cardinality({i \in DOMAIN events : events[i].name = name})

----------------------------------------------------------------------------
(* Modifiers *)

\* A modifier runs its check and then the rest of the call.
\* onlyOwner comparing the caller with the deployer instead of the owner
onlyOwnerDeployer(sender, rest) ==
    IF sender # Deployer THEN "NotOwner" ELSE rest

onlyOwner(sender, rest) == IF sender # owner THEN "NotOwner" ELSE rest
onlyProvider(sender, rest) == IF ~providers[sender] THEN "NotProvider" ELSE rest
whenNotPaused(rest) == IF paused THEN "Paused" ELSE rest
\* checkCooldown still rejecting at the instant the interval has elapsed
checkCooldownStrict(sender, interval, rest) ==
    IF now <= lastActionAt[sender] + interval THEN "TooFrequent" ELSE rest

checkCooldown(sender, interval, rest) ==
    IF now < lastActionAt[sender] + interval THEN "TooFrequent" ELSE rest

----------------------------------------------------------------------------
(* Initial state: the constructor has run in the block at StartTime *)

\* the log after the events es of a call of the administration
Emit(es) == IF logAdmin THEN events \o es ELSE events

constructor(logged) ==
    /\ logAdmin = logged
    /\ owner = Deployer
    /\ paused = FALSE
    /\ cooldownInterval = DefaultCooldown
    /\ batchSizeLimit = DefaultBatchSizeLimit
    /\ currentModelVersion = 1
    /\ providers = [a \in Actors |-> a = Deployer]
    /\ lastActionAt = [a \in Actors |-> 0]
    /\ batches = <<>>
    /\ decryptionContexts = <<>>
    /\ batchAccumulators = <<>>
    /\ batchSizes = <<>>
    /\ batchVersions = <<>>
    /\ counterRequest = 0
    /\ requestedHandles = <<>>
    /\ now = StartTime
    /\ events = (IF logged THEN <<ProviderAdded(Deployer)>> ELSE <<>>)
                    \o <<ModelVersionUpdated(0, 1)>>
    /\ accepted = <<>>

Init == constructor(FALSE)

\* the deployments whose log keeps the events of the administration
InitAdmin == constructor(TRUE)

----------------------------------------------------------------------------
(* Administration *)

lifecycle ==
    <<currentModelVersion, lastActionAt, batches, decryptionContexts,
      batchAccumulators, batchSizes, batchVersions, counterRequest,
      requestedHandles, now, accepted, logAdmin>>

transferOwnershipResult(sender) == onlyOwner(sender, "ok")

\* transferOwnership making the new owner a provider, as the constructor does
transferOwnershipGrants(sender, newOwner) ==
    /\ onlyOwner(sender, "ok") = "ok"
    /\ owner' = newOwner
    /\ providers' = [providers EXCEPT ![newOwner] = TRUE]
    /\ events' = Emit(<<OwnershipTransferred(owner, newOwner)>>)
    /\ UNCHANGED <<paused, cooldownInterval, batchSizeLimit, lifecycle>>

transferOwnership(sender, newOwner) ==
    /\ transferOwnershipResult(sender) = "ok"
    /\ owner' = newOwner
    /\ events' = Emit(<<OwnershipTransferred(owner, newOwner)>>)
    /\ UNCHANGED <<paused, cooldownInterval, batchSizeLimit, providers, lifecycle>>

addProviderResult(sender) == onlyOwner(sender, "ok")

\* addProvider emitting ProviderAdded whether or not the provider is new
addProviderEmitsAlways(provider) == <<ProviderAdded(provider)>>

\* the mapping addProvider leaves and the events it emits
addProviderWrites(provider) ==
    IF ~providers[provider]
    THEN [providers EXCEPT ![provider] = TRUE]
    ELSE providers

addProviderEmits(provider) ==
    IF ~providers[provider] THEN <<ProviderAdded(provider)>> ELSE <<>>

addProvider(sender, provider) ==
    /\ addProviderResult(sender) = "ok"
    /\ providers' = addProviderWrites(provider)
    /\ events' = Emit(addProviderEmits(provider))
    /\ UNCHANGED <<owner, paused, cooldownInterval, batchSizeLimit, lifecycle>>

removeProviderResult(sender) == onlyOwner(sender, "ok")

\* the mapping removeProvider leaves and the events it emits
removeProviderWrites(provider) ==
    IF providers[provider]
    THEN [providers EXCEPT ![provider] = FALSE]
    ELSE providers

removeProviderEmits(provider) ==
    IF providers[provider] THEN <<ProviderRemoved(provider)>> ELSE <<>>

removeProvider(sender, provider) ==
    /\ removeProviderResult(sender) = "ok"
    /\ providers' = removeProviderWrites(provider)
    /\ events' = Emit(removeProviderEmits(provider))
    /\ UNCHANGED <<owner, paused, cooldownInterval, batchSizeLimit, lifecycle>>

setPausedResult(sender) == onlyOwner(sender, "ok")

\* the flag setPaused leaves and the events it emits
setPausedWrites(newPaused) == IF newPaused # paused THEN newPaused ELSE paused

setPausedEmits(sender, newPaused) ==
    IF newPaused # paused
    THEN IF newPaused THEN <<PausedEvent(sender)>> ELSE <<Unpaused(sender)>>
    ELSE <<>>

setPaused(sender, newPaused) ==
    /\ setPausedResult(sender) = "ok"
    /\ paused' = setPausedWrites(newPaused)
    /\ events' = Emit(setPausedEmits(sender, newPaused))
    /\ UNCHANGED <<owner, cooldownInterval, batchSizeLimit, providers, lifecycle>>

setCooldownIntervalResult(sender) == onlyOwner(sender, "ok")

\* setCooldownInterval emitting the two intervals in the wrong order
setCooldownIntervalSwapped(sender, newInterval) ==
    /\ onlyOwner(sender, "ok") = "ok"
    /\ cooldownInterval' = newInterval
    /\ events' = Emit(<<CooldownUpdated(newInterval, cooldownInterval)>>)
    /\ UNCHANGED <<owner, paused, batchSizeLimit, providers, lifecycle>>

setCooldownInterval(sender, newInterval) ==
    /\ setCooldownIntervalResult(sender) = "ok"
    /\ cooldownInterval' = newInterval
    /\ events' = Emit(<<CooldownUpdated(cooldownInterval, newInterval)>>)
    /\ UNCHANGED <<owner, paused, batchSizeLimit, providers, lifecycle>>

\* setBatchSizeLimit without the check of the new limit
setBatchSizeLimitResultUnchecked(sender, newLimit) == onlyOwner(sender, "ok")

setBatchSizeLimitResult(sender, newLimit) ==
    onlyOwner(sender, require(newLimit > 0, "Invalid limit", "ok"))

setBatchSizeLimit(sender, newLimit) ==
    /\ setBatchSizeLimitResult(sender, newLimit) = "ok"
    /\ batchSizeLimit' = newLimit
    /\ events' = Emit(<<BatchSizeLimitUpdated(batchSizeLimit, newLimit)>>)
    /\ UNCHANGED <<owner, paused, cooldownInterval, providers, lifecycle>>

incrementModelVersionResult(sender) == onlyOwner(sender, "ok")

incrementModelVersion(sender) ==
    /\ incrementModelVersionResult(sender) = "ok"
    /\ currentModelVersion' = currentModelVersion + 1
    /\ events' = Append(events, ModelVersionUpdated(currentModelVersion,
                                                    currentModelVersion + 1))
    /\ UNCHANGED <<config, lastActionAt, batches, decryptionContexts,
                   batchAccumulators, batchSizes, batchVersions, counterRequest,
                   requestedHandles, now, accepted>>

----------------------------------------------------------------------------
(* Batch lifecycle *)

\* openBatch refusing a new batch while a decryption request awaits its
\* callback
openBatchResultOneInFlight(sender) ==
    onlyProvider(sender, whenNotPaused(checkCooldown(sender, cooldownInterval,
        require(\A r \in DOMAIN decryptionContexts :
                    decryptionContexts[r].processed, "Request pending",
        require(~BatchAt(BatchIdOf(currentModelVersion, now)).exists,
                "Batch exists", "ok")))))

\* the identifier openBatch derives in the current block
openBatchId == BatchIdOf(currentModelVersion, now)

\* openBatch without the check that the derived identifier is free
openBatchResultNoCollision(sender) ==
    onlyProvider(sender, whenNotPaused(checkCooldown(sender, cooldownInterval,
        "ok")))

openBatchResult(sender) ==
    onlyProvider(sender, whenNotPaused(checkCooldown(sender, cooldownInterval,
        require(~BatchAt(openBatchId).exists, "Batch exists", "ok"))))

openBatch(sender) ==
    /\ openBatchResult(sender) = "ok"
    /\ batches' = Write(batches, openBatchId,
                        [exists |-> TRUE, closed |-> FALSE, createdAt |-> now,
                         closedAt |-> 0, modelVersion |-> currentModelVersion])
    /\ lastActionAt' = [lastActionAt EXCEPT ![sender] = now]
    /\ events' = Append(events, BatchOpened(openBatchId, currentModelVersion))
    /\ UNCHANGED <<config, currentModelVersion, decryptionContexts,
                   batchAccumulators, batchSizes, batchVersions, counterRequest,
                   requestedHandles, now, accepted>>

\* closeBatch refusing a batch stamped with an earlier version
closeBatchResultStale(sender, batchId) ==
    onlyProvider(sender, whenNotPaused(
        require(BatchAt(batchId).exists, "Batch not found",
        require(~BatchAt(batchId).closed, "Batch closed",
        require(BatchAt(batchId).modelVersion = currentModelVersion, "Stale batch",
                "ok")))))

\* closeBatch without the check that the batch is still open
closeBatchResultReclose(sender, batchId) ==
    onlyProvider(sender, whenNotPaused(
        require(BatchAt(batchId).exists, "Batch not found", "ok")))

\* closeBatch stamping the batch it closes with the current version
closeBatchRestamp(sender, batchId) ==
    /\ onlyProvider(sender, whenNotPaused(
           require(BatchAt(batchId).exists, "Batch not found",
           require(~BatchAt(batchId).closed, "Batch closed", "ok")))) = "ok"
    /\ batches' = Write(batches, batchId,
                        [BatchAt(batchId) EXCEPT
                             !.closed = TRUE,
                             !.closedAt = now,
                             !.modelVersion = currentModelVersion])
    /\ events' = Append(events, BatchClosedEvent(batchId))
    /\ UNCHANGED <<config, currentModelVersion, lastActionAt,
                   decryptionContexts, batchAccumulators, batchSizes,
                   batchVersions, counterRequest, requestedHandles, now,
                   accepted>>

\* closeBatch refusing a batch that holds no contribution
closeBatchResultNonEmpty(sender, batchId) ==
    onlyProvider(sender, whenNotPaused(
        require(BatchAt(batchId).exists, "Batch not found",
        require(~BatchAt(batchId).closed, "Batch closed",
        require(SizeAt(batchId, BatchAt(batchId).modelVersion) > 0,
                "Empty batch", "ok")))))

\* closeBatch deleting the accumulator of the batch it closes
closeBatchDeletesAccumulator(sender, batchId) ==
    /\ onlyProvider(sender, whenNotPaused(
           require(BatchAt(batchId).exists, "Batch not found",
           require(~BatchAt(batchId).closed, "Batch closed", "ok")))) = "ok"
    /\ batches' = Write(batches, batchId,
                        [BatchAt(batchId) EXCEPT !.closed = TRUE,
                                                 !.closedAt = now])
    /\ batchAccumulators' =
           Write(batchAccumulators,
                 <<batchId, BatchAt(batchId).modelVersion>>, Uninitialized)
    /\ events' = Append(events, BatchClosedEvent(batchId))
    /\ UNCHANGED <<config, currentModelVersion, lastActionAt,
                   decryptionContexts, batchSizes, batchVersions,
                   counterRequest, requestedHandles, now, accepted>>

\* closeBatch under checkCooldown
closeBatchResultCooldown(sender, batchId) ==
    onlyProvider(sender, whenNotPaused(checkCooldown(sender, cooldownInterval,
        require(BatchAt(batchId).exists, "Batch not found",
        require(~BatchAt(batchId).closed, "Batch closed", "ok")))))

closeBatchResult(sender, batchId) ==
    onlyProvider(sender, whenNotPaused(
        require(BatchAt(batchId).exists, "Batch not found",
        require(~BatchAt(batchId).closed, "Batch closed", "ok"))))

closeBatch(sender, batchId) ==
    /\ closeBatchResult(sender, batchId) = "ok"
    /\ batches' = Write(batches, batchId,
                        [BatchAt(batchId) EXCEPT !.closed = TRUE,
                                                 !.closedAt = now])
    /\ events' = Append(events, BatchClosedEvent(batchId))
    /\ UNCHANGED <<config, currentModelVersion, lastActionAt, decryptionContexts,
                   batchAccumulators, batchSizes, batchVersions, counterRequest,
                   requestedHandles, now, accepted>>

\* submitCrop admitting a contribution when the count equals the limit
submitCropResultOffByOne(sender, batchId) ==
    onlyProvider(sender, whenNotPaused(checkCooldown(sender, cooldownInterval,
        require(BatchAt(batchId).exists, "Batch not found",
        require(~BatchAt(batchId).closed, "Batch closed",
        require(BatchAt(batchId).modelVersion = currentModelVersion, "Stale batch",
        require(SizeAt(batchId, currentModelVersion) <= batchSizeLimit, "Batch full",
                "ok")))))))

\* submitCrop checking the version before the closed flag
submitCropResultStaleFirst(sender, batchId) ==
    onlyProvider(sender, whenNotPaused(checkCooldown(sender, cooldownInterval,
        require(BatchAt(batchId).exists, "Batch not found",
        require(BatchAt(batchId).modelVersion = currentModelVersion, "Stale batch",
        require(~BatchAt(batchId).closed, "Batch closed",
        require(SizeAt(batchId, currentModelVersion) < batchSizeLimit, "Batch full",
                "ok")))))))

\* submitCrop without the version check
submitCropResultNoStale(sender, batchId) ==
    onlyProvider(sender, whenNotPaused(checkCooldown(sender, cooldownInterval,
        require(BatchAt(batchId).exists, "Batch not found",
        require(~BatchAt(batchId).closed, "Batch closed",
        require(SizeAt(batchId, currentModelVersion) < batchSizeLimit, "Batch full",
                "ok"))))))

\* submitCrop without the check that the batch is still open
submitCropResultNoClosed(sender, batchId) ==
    onlyProvider(sender, whenNotPaused(checkCooldown(sender, cooldownInterval,
        require(BatchAt(batchId).exists, "Batch not found",
        require(BatchAt(batchId).modelVersion = currentModelVersion, "Stale batch",
        require(SizeAt(batchId, currentModelVersion) < batchSizeLimit,
                "Batch full", "ok"))))))

submitCropResult(sender, batchId) ==
    onlyProvider(sender, whenNotPaused(checkCooldown(sender, cooldownInterval,
        require(BatchAt(batchId).exists, "Batch not found",
        require(~BatchAt(batchId).closed, "Batch closed",
        require(BatchAt(batchId).modelVersion = currentModelVersion, "Stale batch",
        require(SizeAt(batchId, currentModelVersion) < batchSizeLimit, "Batch full",
                "ok")))))))

\* submitCrop adding the contribution to a fresh zero instead of the stored
\* accumulator
submitCropAccumulatorReset(batchId, c) ==
    LET totalScore == FheAdd(FheAdd(Encrypt(c[1]), Encrypt(c[2])), Encrypt(c[3]))
    IN  FheAdd(asEuint32Zero, totalScore)

\* the accumulator submitCrop stores for the contribution c
submitCropAccumulator(batchId, c) ==
    LET totalScore == FheAdd(FheAdd(Encrypt(c[1]), Encrypt(c[2])), Encrypt(c[3]))
        stored == AccumulatorAt(batchId, currentModelVersion)
        acc == IF ~isInitialized(stored) THEN asEuint32Zero ELSE stored
    IN  FheAdd(acc, totalScore)

\* submitCrop without the increment of the count
submitCropNoCount(sender, batchId, c) ==
    LET key == <<batchId, currentModelVersion>> IN
    /\ submitCropResult(sender, batchId) = "ok"
    /\ batchAccumulators' =
           Write(batchAccumulators, key, submitCropAccumulator(batchId, c))
    /\ batchSizes' = Write(batchSizes, key, SizeAt(batchId, currentModelVersion))
    /\ batchVersions' = Write(batchVersions, key, currentModelVersion)
    /\ lastActionAt' = [lastActionAt EXCEPT ![sender] = now]
    /\ events' = Append(events,
                        CropSubmitted(sender, batchId, currentModelVersion))
    /\ accepted' = Write(accepted, key,
                         AcceptedAt(batchId, currentModelVersion) (+) SetToBag({c}))
    /\ UNCHANGED <<config, currentModelVersion, batches, decryptionContexts,
                   counterRequest, requestedHandles, now>>

\* submitCrop recording the caller's action time before the capacity check
\* and returning, instead of reverting, when the batch is full
submitCropSilentFull(sender, batchId, c) ==
    LET key == <<batchId, currentModelVersion>> IN
    \/ /\ submitCropResult(sender, batchId) = "ok"
       /\ batchAccumulators' =
              Write(batchAccumulators, key, submitCropAccumulator(batchId, c))
       /\ batchSizes' = Write(batchSizes, key,
                              SizeAt(batchId, currentModelVersion) + 1)
       /\ batchVersions' = Write(batchVersions, key, currentModelVersion)
       /\ lastActionAt' = [lastActionAt EXCEPT ![sender] = now]
       /\ events' = Append(events,
                           CropSubmitted(sender, batchId, currentModelVersion))
       /\ accepted' = Write(accepted, key,
                            AcceptedAt(batchId, currentModelVersion)
                                (+) SetToBag({c}))
       /\ UNCHANGED <<config, currentModelVersion, batches, decryptionContexts,
                      counterRequest, requestedHandles, now>>
    \/ /\ submitCropResult(sender, batchId) = "Batch full"
       /\ lastActionAt' = [lastActionAt EXCEPT ![sender] = now]
       /\ UNCHANGED <<config, currentModelVersion, batches, decryptionContexts,
                      batchAccumulators, batchSizes, batchVersions,
                      counterRequest, requestedHandles, now, events, accepted>>

\* submitCrop closing the batch when the contribution fills it
submitCropClosesFull(sender, batchId, c) ==
    LET key == <<batchId, currentModelVersion>> IN
    /\ submitCropResult(sender, batchId) = "ok"
    /\ batchAccumulators' =
           Write(batchAccumulators, key, submitCropAccumulator(batchId, c))
    /\ batchSizes' = Write(batchSizes, key,
                           SizeAt(batchId, currentModelVersion) + 1)
    /\ batchVersions' = Write(batchVersions, key, currentModelVersion)
    /\ lastActionAt' = [lastActionAt EXCEPT ![sender] = now]
    /\ events' = Append(events,
                        CropSubmitted(sender, batchId, currentModelVersion))
    /\ accepted' = Write(accepted, key,
                         AcceptedAt(batchId, currentModelVersion) (+) SetToBag({c}))
    /\ batches' = IF SizeAt(batchId, currentModelVersion) + 1 = batchSizeLimit
                  THEN Write(batches, batchId,
                             [BatchAt(batchId) EXCEPT !.closed = TRUE,
                                                      !.closedAt = now])
                  ELSE batches
    /\ UNCHANGED <<config, currentModelVersion, decryptionContexts,
                   counterRequest, requestedHandles, now>>

submitCrop(sender, batchId, c) ==
    LET key == <<batchId, currentModelVersion>> IN
    /\ submitCropResult(sender, batchId) = "ok"
    /\ batchAccumulators' =
           Write(batchAccumulators, key, submitCropAccumulator(batchId, c))
    /\ batchSizes' = Write(batchSizes, key,
                           SizeAt(batchId, currentModelVersion) + 1)
    /\ batchVersions' = Write(batchVersions, key, currentModelVersion)
    /\ lastActionAt' = [lastActionAt EXCEPT ![sender] = now]
    /\ events' = Append(events,
                        CropSubmitted(sender, batchId, currentModelVersion))
    /\ accepted' = Write(accepted, key,
                         AcceptedAt(batchId, currentModelVersion) (+) SetToBag({c}))
    /\ UNCHANGED <<config, currentModelVersion, batches, decryptionContexts,
                   counterRequest, requestedHandles, now>>

----------------------------------------------------------------------------
(* Decryption request and callback *)

\* requestBatchDecryption reserved to providers
requestBatchDecryptionResultOnlyProvider(sender, batchId) ==
    onlyProvider(sender, whenNotPaused(checkCooldown(sender, cooldownInterval,
        require(BatchAt(batchId).exists, "Batch not found",
        require(BatchAt(batchId).closed, "Batch not closed",
        require(BatchAt(batchId).modelVersion = currentModelVersion, "Stale batch",
        requireInitialized(AccumulatorAt(batchId, currentModelVersion), "ok")))))))

\* requestBatchDecryption without the check that the accumulator is
\* initialized
requestBatchDecryptionResultNoInit(sender, batchId) ==
    whenNotPaused(checkCooldown(sender, cooldownInterval,
        require(BatchAt(batchId).exists, "Batch not found",
        require(BatchAt(batchId).closed, "Batch not closed",
        require(BatchAt(batchId).modelVersion = currentModelVersion, "Stale batch",
                "ok")))))

\* requestBatchDecryption refusing a batch that already has a request
requestBatchDecryptionResultDedup(sender, batchId) ==
    whenNotPaused(checkCooldown(sender, cooldownInterval,
        require(BatchAt(batchId).exists, "Batch not found",
        require(BatchAt(batchId).closed, "Batch not closed",
        require(BatchAt(batchId).modelVersion = currentModelVersion, "Stale batch",
        requireInitialized(AccumulatorAt(batchId, currentModelVersion),
        require(\A r \in DOMAIN decryptionContexts :
                    decryptionContexts[r].batchId # batchId, "Request exists",
                "ok")))))))

\* requestBatchDecryption without the version check
requestBatchDecryptionResultNoStale(sender, batchId) ==
    whenNotPaused(checkCooldown(sender, cooldownInterval,
        require(BatchAt(batchId).exists, "Batch not found",
        require(BatchAt(batchId).closed, "Batch not closed",
        requireInitialized(AccumulatorAt(batchId, currentModelVersion), "ok")))))

\* requestBatchDecryption without the check that the batch is closed
requestBatchDecryptionResultOpen(sender, batchId) ==
    whenNotPaused(checkCooldown(sender, cooldownInterval,
        require(BatchAt(batchId).exists, "Batch not found",
        require(BatchAt(batchId).modelVersion = currentModelVersion, "Stale batch",
        requireInitialized(AccumulatorAt(batchId, currentModelVersion), "ok")))))

requestBatchDecryptionResult(sender, batchId) ==
    whenNotPaused(checkCooldown(sender, cooldownInterval,
        require(BatchAt(batchId).exists, "Batch not found",
        require(BatchAt(batchId).closed, "Batch not closed",
        require(BatchAt(batchId).modelVersion = currentModelVersion, "Stale batch",
        requireInitialized(AccumulatorAt(batchId, currentModelVersion), "ok"))))))

\* requestBatchDecryption dispatching the accumulator of the previous version
requestBatchDecryptionCtsPreviousVersion(batchId) ==
    <<toBytes32(AccumulatorAt(batchId, currentModelVersion - 1))>>

\* the ciphertext handles requestBatchDecryption dispatches for the batch
requestBatchDecryptionCts(batchId) ==
    <<toBytes32(AccumulatorAt(batchId, currentModelVersion))>>

\* requestBatchDecryption storing the context of a batch that already has a
\* request over that request's context
requestBatchDecryptionOverwrites(sender, batchId) ==
    LET cts == requestBatchDecryptionCts(batchId)
        earlier == {r \in DOMAIN decryptionContexts :
                       decryptionContexts[r].batchId = batchId}
        requestId == IF earlier = {} THEN counterRequest
                     ELSE CHOOSE r \in earlier : \A q \in earlier : r <= q
    IN
    /\ requestBatchDecryptionResult(sender, batchId) = "ok"
    /\ requestedHandles' = Write(requestedHandles, requestId, cts)
    /\ counterRequest' = counterRequest + 1
    /\ decryptionContexts' =
           Write(decryptionContexts, requestId,
                 [batchId |-> batchId,
                  modelVersion |-> currentModelVersion,
                  stateHash |-> hashCiphertexts(cts),
                  processed |-> FALSE,
                  requester |-> sender])
    /\ lastActionAt' = [lastActionAt EXCEPT ![sender] = now]
    /\ events' = Append(events, DecryptionRequested(requestId, batchId, sender))
    /\ UNCHANGED <<config, currentModelVersion, batches, batchAccumulators,
                   batchSizes, batchVersions, now, accepted>>

\* FHE.requestDecryption names the request by the library's counter
requestBatchDecryption(sender, batchId) ==
    LET cts == requestBatchDecryptionCts(batchId)
        requestId == counterRequest
    IN
    /\ requestBatchDecryptionResult(sender, batchId) = "ok"
    /\ requestedHandles' = Write(requestedHandles, requestId, cts)
    /\ counterRequest' = counterRequest + 1
    /\ decryptionContexts' =
           Write(decryptionContexts, requestId,
                 [batchId |-> batchId,
                  modelVersion |-> currentModelVersion,
                  stateHash |-> hashCiphertexts(cts),
                  processed |-> FALSE,
                  requester |-> sender])
    /\ lastActionAt' = [lastActionAt EXCEPT ![sender] = now]
    /\ events' = Append(events, DecryptionRequested(requestId, batchId, sender))
    /\ UNCHANGED <<config, currentModelVersion, batches, batchAccumulators,
                   batchSizes, batchVersions, now, accepted>>

\* the cleartext of the ciphertext dispatched for a request
TrueCleartext(requestId) == Decrypt(requestedHandles[requestId][1])

\* the cleartexts a caller of onBatchDecrypted passes: the decryption of the
\* ciphertext dispatched for the request, and a value that is not
CleartextArgs(requestId) ==
    {U32(1)} \cup
        (IF requestId \in DOMAIN requestedHandles
         THEN {TrueCleartext(requestId)} ELSE {})

\* the proofs a caller passes: the signatures of the KMS over the handles
\* dispatched for the request and their decryption, and anything else
Proofs == {"kms", "forged"}

\* FHE.checkSignatures(requestId, cleartexts, proof): the proof must be the
\* signatures of the KMS over the request's handles and these cleartexts; the
\* KMS signs the decryption of the handles and nothing else
checkSignatures(requestId, cleartexts, proof) ==
    /\ proof = "kms"
    /\ requestId \in DOMAIN requestedHandles
    /\ cleartexts = TrueCleartext(requestId)

\* onBatchDecrypted comparing the version of the context with the current one
onBatchDecryptedResultCurrentVersion(requestId, cleartexts, proof) ==
    LET ctx == ContextAt(requestId)
        batch == BatchAt(ctx.batchId)
        acc == AccumulatorAt(ctx.batchId, ctx.modelVersion)
        currentStateHash == hashCiphertexts(<<toBytes32(acc)>>)
    IN  require(~ctx.processed, "Request processed",
        require(ctx.requester # NoAddr, "Invalid context",
        require(batch.exists, "Batch not found",
        require(batch.closed, "Batch not closed",
        require(currentModelVersion = ctx.modelVersion, "Version mismatch",
        requireInitialized(acc,
        require(currentStateHash = ctx.stateHash, "State hash mismatch",
        require(checkSignatures(requestId, cleartexts, proof), "InvalidProof",
                "ok"))))))))

\* onBatchDecrypted without the check of the processed flag
onBatchDecryptedResultReplay(requestId, cleartexts, proof) ==
    LET ctx == ContextAt(requestId)
        batch == BatchAt(ctx.batchId)
        acc == AccumulatorAt(ctx.batchId, ctx.modelVersion)
        currentStateHash == hashCiphertexts(<<toBytes32(acc)>>)
    IN  require(ctx.requester # NoAddr, "Invalid context",
        require(batch.exists, "Batch not found",
        require(batch.closed, "Batch not closed",
        require(batch.modelVersion = ctx.modelVersion, "Version mismatch",
        requireInitialized(acc,
        require(currentStateHash = ctx.stateHash, "State hash mismatch",
        require(checkSignatures(requestId, cleartexts, proof), "InvalidProof",
                "ok")))))))

\* onBatchDecrypted without the verification of the signatures
onBatchDecryptedResultNoProof(requestId, cleartexts, proof) ==
    LET ctx == ContextAt(requestId)
        batch == BatchAt(ctx.batchId)
        acc == AccumulatorAt(ctx.batchId, ctx.modelVersion)
        currentStateHash == hashCiphertexts(<<toBytes32(acc)>>)
    IN  require(~ctx.processed, "Request processed",
        require(ctx.requester # NoAddr, "Invalid context",
        require(batch.exists, "Batch not found",
        require(batch.closed, "Batch not closed",
        require(batch.modelVersion = ctx.modelVersion, "Version mismatch",
        requireInitialized(acc,
        require(currentStateHash = ctx.stateHash, "State hash mismatch",
                "ok")))))))

\* onBatchDecrypted without the check that the request has a context
onBatchDecryptedResultNoContext(requestId, cleartexts, proof) ==
    LET ctx == ContextAt(requestId)
        batch == BatchAt(ctx.batchId)
        acc == AccumulatorAt(ctx.batchId, ctx.modelVersion)
        currentStateHash == hashCiphertexts(<<toBytes32(acc)>>)
    IN  require(~ctx.processed, "Request processed",
        require(batch.exists, "Batch not found",
        require(batch.closed, "Batch not closed",
        require(batch.modelVersion = ctx.modelVersion, "Version mismatch",
        requireInitialized(acc,
        require(currentStateHash = ctx.stateHash, "State hash mismatch",
        require(checkSignatures(requestId, cleartexts, proof), "InvalidProof",
                "ok")))))))

\* onBatchDecrypted under whenNotPaused
onBatchDecryptedResultWhenNotPaused(requestId, cleartexts, proof) ==
    LET ctx == ContextAt(requestId)
        batch == BatchAt(ctx.batchId)
        acc == AccumulatorAt(ctx.batchId, ctx.modelVersion)
        currentStateHash == hashCiphertexts(<<toBytes32(acc)>>)
    IN  whenNotPaused(
        require(~ctx.processed, "Request processed",
        require(ctx.requester # NoAddr, "Invalid context",
        require(batch.exists, "Batch not found",
        require(batch.closed, "Batch not closed",
        require(batch.modelVersion = ctx.modelVersion, "Version mismatch",
        requireInitialized(acc,
        require(currentStateHash = ctx.stateHash, "State hash mismatch",
        require(checkSignatures(requestId, cleartexts, proof), "InvalidProof",
                "ok")))))))))

onBatchDecryptedResult(requestId, cleartexts, proof) ==
    LET ctx == ContextAt(requestId)
        batch == BatchAt(ctx.batchId)
        acc == AccumulatorAt(ctx.batchId, ctx.modelVersion)
        currentStateHash == hashCiphertexts(<<toBytes32(acc)>>)
    IN  require(~ctx.processed, "Request processed",
        require(ctx.requester # NoAddr, "Invalid context",
        require(batch.exists, "Batch not found",
        require(batch.closed, "Batch not closed",
        require(batch.modelVersion = ctx.modelVersion, "Version mismatch",
        requireInitialized(acc,
        require(currentStateHash = ctx.stateHash, "State hash mismatch",
        require(checkSignatures(requestId, cleartexts, proof), "InvalidProof",
                "ok"))))))))

\* onBatchDecrypted marking a memory copy of the context: the stored context
\* stays unprocessed
onBatchDecryptedMemoryContext(sender, requestId, cleartexts, proof) ==
    LET ctx == ContextAt(requestId)
        totalScore == cleartexts
    IN
    /\ onBatchDecryptedResult(requestId, cleartexts, proof) = "ok"
    /\ events' = Append(events,
                        DecryptionCompleted(requestId, ctx.batchId, totalScore))
    /\ UNCHANGED <<config, currentModelVersion, lastActionAt, batches,
                   decryptionContexts, batchAccumulators, batchSizes,
                   batchVersions, counterRequest, requestedHandles, now,
                   accepted>>

onBatchDecrypted(sender, requestId, cleartexts, proof) ==
    LET ctx == ContextAt(requestId)
        totalScore == cleartexts
    IN
    /\ onBatchDecryptedResult(requestId, cleartexts, proof) = "ok"
    /\ decryptionContexts' =
           Write(decryptionContexts, requestId, [ctx EXCEPT !.processed = TRUE])
    /\ events' = Append(events,
                        DecryptionCompleted(requestId, ctx.batchId, totalScore))
    /\ UNCHANGED <<config, currentModelVersion, lastActionAt, batches,
                   batchAccumulators, batchSizes, batchVersions, counterRequest,
                   requestedHandles, now, accepted>>

----------------------------------------------------------------------------
(* Time: the next block *)

Tick ==
    /\ now' = now + BlockInterval
    /\ UNCHANGED <<config, currentModelVersion, lastActionAt, batches,
                   decryptionContexts, batchAccumulators, batchSizes,
                   batchVersions, counterRequest, requestedHandles, events,
                   accepted>>

----------------------------------------------------------------------------
(* Specification *)

\* The bounds cut the behaviours short: a call beyond a bound is not made.
\* The calls of submitCrop and requestBatchDecryption need no bound of their
\* own: the cooldown admits one of them per actor and block.
Next ==
    \/ \E sender \in Actors, newOwner \in Actors :
           transferOwnership(sender, newOwner)
    \/ \E sender \in Actors, provider \in Actors : addProvider(sender, provider)
    \/ \E sender \in Actors, provider \in Actors :
           removeProvider(sender, provider)
    \/ \E sender \in Actors, newPaused \in BOOLEAN : setPaused(sender, newPaused)
    \/ \E sender \in Actors, newInterval \in CooldownChoices :
           setCooldownInterval(sender, newInterval)
    \/ \E sender \in Actors, newLimit \in LimitChoices :
           setBatchSizeLimit(sender, newLimit)
    \/ \E sender \in Actors :
           currentModelVersion < MaxVersion /\ incrementModelVersion(sender)
    \/ \E sender \in Actors :
           CountEvents("BatchOpened") < MaxBatches /\ openBatch(sender)
    \/ \E sender \in Actors, batchId \in BatchArgs : closeBatch(sender, batchId)
    \/ \E sender \in Actors, batchId \in BatchArgs, c \in Contributions :
           submitCrop(sender, batchId, c)
    \/ \E sender \in Actors, batchId \in BatchArgs :
           requestBatchDecryption(sender, batchId)
    \/ \E sender \in Actors, requestId \in RequestArgs :
           \E cleartexts \in CleartextArgs(requestId), proof \in Proofs :
               onBatchDecrypted(sender, requestId, cleartexts, proof)
    \/ now < StartTime + MaxTicks * BlockInterval /\ Tick

Spec == Init /\ [][Next]_vars

\* The long lifecycles: the owner keeps the deployment configuration (it
\* transfers no ownership, pauses nothing, changes no interval or limit and
\* removes no provider) and the submitters encrypt one triple of values,
\* which leaves room for more blocks and a second batch.
ContributionsLong == {<<U32(3), U32(4), U32(0)>>}

NextLong ==
    \/ \E sender \in Actors, provider \in Actors :
           ~providers[provider] /\ addProvider(sender, provider)
    \/ \E sender \in Actors :
           currentModelVersion < MaxVersion /\ incrementModelVersion(sender)
    \/ \E sender \in Actors :
           CountEvents("BatchOpened") < MaxBatchesLong /\ openBatch(sender)
    \/ \E sender \in Actors, batchId \in BatchArgs : closeBatch(sender, batchId)
    \/ \E sender \in Actors, batchId \in BatchArgs, c \in ContributionsLong :
           submitCrop(sender, batchId, c)
    \/ \E sender \in Actors, batchId \in BatchArgs :
           requestBatchDecryption(sender, batchId)
    \/ \E sender \in Actors, requestId \in RequestArgs :
           \E cleartexts \in CleartextArgs(requestId), proof \in Proofs :
               onBatchDecrypted(sender, requestId, cleartexts, proof)
    \/ now < StartTime + MaxTicksLong * BlockInterval /\ Tick

SpecLong == Init /\ [][NextLong]_vars

\* The decryption oracle: for a request it was sent, it calls back with the
\* decryption of the dispatched ciphertext and the signatures of the KMS.
OracleDelivers(requestId) ==
    \E sender \in Actors :
        onBatchDecrypted(sender, requestId, TrueCleartext(requestId), "kms")

\* the request identifiers the bounded behaviours issue: one rate-limited
\* call per actor and block, and the calls of the first block go to opening
\* and filling a batch
RequestIds == 0..(Cardinality(Actors) * MaxTicks - 1)

\* The calls under a delivering oracle: every call of the contract, the
\* submitters encrypting one triple of values.
NextLive ==
    \/ \E sender \in Actors, newOwner \in Actors :
           transferOwnership(sender, newOwner)
    \/ \E sender \in Actors, provider \in Actors : addProvider(sender, provider)
    \/ \E sender \in Actors, provider \in Actors :
           removeProvider(sender, provider)
    \/ \E sender \in Actors, newPaused \in BOOLEAN : setPaused(sender, newPaused)
    \/ \E sender \in Actors, newInterval \in CooldownChoices :
           setCooldownInterval(sender, newInterval)
    \/ \E sender \in Actors, newLimit \in LimitChoices :
           setBatchSizeLimit(sender, newLimit)
    \/ \E sender \in Actors :
           currentModelVersion < MaxVersion /\ incrementModelVersion(sender)
    \/ \E sender \in Actors :
           CountEvents("BatchOpened") < MaxBatches /\ openBatch(sender)
    \/ \E sender \in Actors, batchId \in BatchArgs : closeBatch(sender, batchId)
    \/ \E sender \in Actors, batchId \in BatchArgs, c \in ContributionsLong :
           submitCrop(sender, batchId, c)
    \/ \E sender \in Actors, batchId \in BatchArgs :
           requestBatchDecryption(sender, batchId)
    \/ \E sender \in Actors, requestId \in RequestArgs :
           \E cleartexts \in CleartextArgs(requestId), proof \in Proofs :
               onBatchDecrypted(sender, requestId, cleartexts, proof)
    \/ now < StartTime + MaxTicks * BlockInterval /\ Tick

\* The oracle does not withhold a callback for ever: a delivery that stays
\* possible is made.
SpecLive ==
    Init /\ [][NextLive]_vars /\ \A r \in RequestIds : WF_vars(OracleDelivers(r))

\* The owner sets any cooldown interval: the lifecycle under the intervals of
\* CooldownArgs.  With the interval 0 nothing but the bound stops an actor
\* repeating requestBatchDecryption in a block.
NextCooldown ==
    \/ \E sender \in Actors, newInterval \in CooldownArgs :
           setCooldownInterval(sender, newInterval)
    \/ \E sender \in Actors, provider \in Actors :
           ~providers[provider] /\ addProvider(sender, provider)
    \/ \E sender \in Actors :
           CountEvents("BatchOpened") < MaxBatches /\ openBatch(sender)
    \/ \E sender \in Actors, batchId \in BatchArgs : closeBatch(sender, batchId)
    \/ \E sender \in Actors, batchId \in BatchArgs, c \in ContributionsLong :
           submitCrop(sender, batchId, c)
    \/ \E sender \in Actors, batchId \in BatchArgs :
           counterRequest < MaxRequests /\ requestBatchDecryption(sender, batchId)
    \/ \E sender \in Actors, requestId \in RequestArgs :
           \E cleartexts \in CleartextArgs(requestId), proof \in Proofs :
               onBatchDecrypted(sender, requestId, cleartexts, proof)
    \/ now < StartTime + MaxTicks * BlockInterval /\ Tick

SpecCooldown == Init /\ [][NextCooldown]_vars

\* The logged deployments: the log keeps the events of the administration
\* too.  A call is made while the calls made so far have emitted fewer than
\* MaxEmitted events.
NextAdmin ==
    \/ \E sender \in Actors, newOwner \in Actors :
           Emitted < MaxEmitted /\ transferOwnership(sender, newOwner)
    \/ \E sender \in Actors, provider \in Actors :
           Emitted < MaxEmitted /\ addProvider(sender, provider)
    \/ \E sender \in Actors, provider \in Actors :
           Emitted < MaxEmitted /\ removeProvider(sender, provider)
    \/ \E sender \in Actors, newPaused \in BOOLEAN :
           Emitted < MaxEmitted /\ setPaused(sender, newPaused)
    \/ \E sender \in Actors, newInterval \in CooldownChoices :
           Emitted < MaxEmitted /\ setCooldownInterval(sender, newInterval)
    \/ \E sender \in Actors, newLimit \in LimitChoices :
           Emitted < MaxEmitted /\ setBatchSizeLimit(sender, newLimit)
    \/ \E sender \in Actors :
           /\ Emitted < MaxEmitted
           /\ currentModelVersion < MaxVersion
           /\ incrementModelVersion(sender)
    \/ \E sender \in Actors : Emitted < MaxEmitted /\ openBatch(sender)
    \/ \E sender \in Actors, batchId \in BatchArgs :
           Emitted < MaxEmitted /\ closeBatch(sender, batchId)
    \/ \E sender \in Actors, batchId \in BatchArgs, c \in ContributionsLong :
           Emitted < MaxEmitted /\ submitCrop(sender, batchId, c)
    \/ \E sender \in Actors, batchId \in BatchArgs :
           Emitted < MaxEmitted /\ requestBatchDecryption(sender, batchId)
    \/ \E sender \in Actors, requestId \in RequestArgs :
           \E cleartexts \in CleartextArgs(requestId), proof \in Proofs :
               /\ Emitted < MaxEmitted
               /\ onBatchDecrypted(sender, requestId, cleartexts, proof)
    \/ now < StartTime + MaxTicks * BlockInterval /\ Tick

SpecAdmin == InitAdmin /\ [][NextAdmin]_vars

----------------------------------------------------------------------------
(* Vocabulary of the properties *)

Versions == 0..MaxVersion

\* the keys (batchId, version) of the accumulators and counts
Keys == BatchArgs \X Versions

\* the sender passes whenNotPaused and checkCooldown
Admitted(sender) ==
    ~paused /\ now >= lastActionAt[sender] + cooldownInterval

\* the sender passes onlyProvider, whenNotPaused and checkCooldown
AdmittedProvider(sender) == providers[sender] /\ Admitted(sender)

\* the batch exists, is open and stamped with an earlier version
OpenStale(batchId) ==
    /\ BatchAt(batchId).exists
    /\ ~BatchAt(batchId).closed
    /\ BatchAt(batchId).modelVersion < currentModelVersion

\* the positions of the events with the given name and request
EventsOf(name, requestId) ==
    {i \in DOMAIN events :
        events[i].name = name /\ events[i].requestId = requestId}

\* the sum of the fields of the contributions of a bag, in uint32: the limbs
\* are summed exactly and the total is reduced modulo 2^32
RECURSIVE LimbSum(_, _, _)
LimbSum(S, B, i) ==
    IF S = {} THEN 0
    ELSE LET c == CHOOSE x \in S : TRUE
         IN  CopiesIn(c, B) * (c[1][i] + c[2][i] + c[3][i])
                 + LimbSum(S \ {c}, B, i)

Sum32(B) ==
    LET lo == LimbSum(BagToSet(B), B, 2)
        hi == LimbSum(BagToSet(B), B, 1) + (lo \div Limb)
    IN  <<hi % Limb, lo % Limb>>

----------------------------------------------------------------------------
(* C1: for every request identifier, onBatchDecrypted succeeds at most once: *)
(* DecryptionCompleted is in the log at most once per request, and once it   *)
(* is there every callback for the request reverts with "Request processed", *)
(* whatever cleartext and proof it carries.                                  *)

C1_CallbackAtMostOnce ==
    \A r \in RequestArgs :
        /\ Cardinality(EventsOf("DecryptionCompleted", r)) <= 1
        /\ EventsOf("DecryptionCompleted", r) # {} =>
               \A cleartexts \in CleartextArgs(r), proof \in Proofs :
                   onBatchDecryptedResult(r, cleartexts, proof)
                       = "Request processed"

\* a callback has succeeded
C1_Witness ==
    \E r \in DOMAIN decryptionContexts :
        /\ EventsOf("DecryptionCompleted", r) # {}
        /\ decryptionContexts[r].processed

----------------------------------------------------------------------------
(* C2 as stated: in every reachable state the count of every key is at most *)
(* the current capacity limit.                                               *)

C2_CountWithinCurrentLimit ==
    \A key \in Keys : SizeAt(key[1], key[2]) <= batchSizeLimit

(* C2 amended: a count changes only by growing by one, to a value that is   *)
(* at most the capacity limit in force at that call, and a submitCrop that  *)
(* passes the earlier checks on a batch whose count has reached the limit    *)
(* reverts with "Batch full".  (A count exceeds the limit only after         *)
(* setBatchSizeLimit has lowered the limit below it.)                        *)

C2_FullBatchRejects ==
    \A sender \in Actors, batchId \in DOMAIN batches :
        ( /\ AdmittedProvider(sender)
          /\ ~BatchAt(batchId).closed
          /\ BatchAt(batchId).modelVersion = currentModelVersion
          /\ SizeAt(batchId, currentModelVersion) >= batchSizeLimit )
        => submitCropResult(sender, batchId) = "Batch full"

C2_CountStep ==
    \A key \in Keys :
        SizeAt(key[1], key[2])' # SizeAt(key[1], key[2]) =>
            /\ SizeAt(key[1], key[2])' = SizeAt(key[1], key[2]) + 1
            /\ SizeAt(key[1], key[2])' <= batchSizeLimit

C2_CountWithinLimitOfCall == []C2_FullBatchRejects /\ [][C2_CountStep]_vars

\* a batch is full: a further contribution is rejected with "Batch full"
C2_Witness ==
    \E sender \in Actors, batchId \in DOMAIN batches :
        /\ SizeAt(batchId, currentModelVersion) = batchSizeLimit
        /\ submitCropResult(sender, batchId) = "Batch full"

----------------------------------------------------------------------------
(* C3: once a batch is closed it stays closed, every submitCrop for it by a  *)
(* provider that passes the pause and cooldown checks reverts with "Batch    *)
(* closed", whether the batch is stale or not, and its accumulators and      *)
(* counts never change again.                                                *)

C3_ClosedRejects ==
    \A sender \in Actors, batchId \in DOMAIN batches :
        (BatchAt(batchId).closed /\ AdmittedProvider(sender))
            => submitCropResult(sender, batchId) = "Batch closed"

C3_ClosedStep ==
    \A batchId \in DOMAIN batches :
        BatchAt(batchId).closed =>
            /\ BatchAt(batchId).closed'
            /\ \A v \in Versions :
                   /\ AccumulatorAt(batchId, v)' = AccumulatorAt(batchId, v)
                   /\ SizeAt(batchId, v)' = SizeAt(batchId, v)

C3_ClosedIsFinal == []C3_ClosedRejects /\ [][C3_ClosedStep]_vars

\* a closed batch with contributions, stamped with an earlier version, and a
\* provider whose submitCrop reaches the checks of the batch
C3_Witness ==
    \E sender \in Actors, batchId \in DOMAIN batches :
        /\ BatchAt(batchId).closed
        /\ BatchAt(batchId).modelVersion < currentModelVersion
        /\ SizeAt(batchId, BatchAt(batchId).modelVersion) > 0
        /\ AdmittedProvider(sender)

----------------------------------------------------------------------------
(* C4: the model version never decreases; no submitCrop succeeds for an open *)
(* batch stamped with an earlier version, and one that passes the provider,  *)
(* pause and cooldown checks reverts with "Stale batch"; the stamp of the    *)
(* batch and the accumulator and count under its (batchId, stamp) key stay   *)
(* as they are.                                                              *)

C4_StaleRejects ==
    \A sender \in Actors, batchId \in DOMAIN batches :
        OpenStale(batchId) =>
            /\ submitCropResult(sender, batchId) # "ok"
            /\ AdmittedProvider(sender) =>
                   submitCropResult(sender, batchId) = "Stale batch"

C4_StaleStep ==
    /\ currentModelVersion' >= currentModelVersion
    /\ \A batchId \in DOMAIN batches :
           LET v == BatchAt(batchId).modelVersion IN
           /\ BatchAt(batchId).modelVersion' = v
           /\ v < currentModelVersion =>
                  /\ AccumulatorAt(batchId, v)' = AccumulatorAt(batchId, v)
                  /\ SizeAt(batchId, v)' = SizeAt(batchId, v)

C4_StaleBatchFrozen == []C4_StaleRejects /\ [][C4_StaleStep]_vars

\* an open batch with contributions, the version incremented after them, and
\* a provider whose submitCrop reaches the version check
C4_Witness ==
    \E sender \in Actors, batchId \in DOMAIN batches :
        /\ OpenStale(batchId)
        /\ SizeAt(batchId, BatchAt(batchId).modelVersion) > 0
        /\ AdmittedProvider(sender)
        /\ submitCropResult(sender, batchId) = "Stale batch"

----------------------------------------------------------------------------
(* Vocabulary of the decryption properties *)

\* the batch exists, is closed and stamped with an earlier version
ClosedStale(batchId) ==
    /\ BatchAt(batchId).exists
    /\ BatchAt(batchId).closed
    /\ BatchAt(batchId).modelVersion < currentModelVersion

\* the positions in the log of the events with the given name
Positions(name) == {i \in DOMAIN events : events[i].name = name}

\* the request has a context that no callback has consumed
Pending(requestId) ==
    /\ requestId \in DOMAIN decryptionContexts
    /\ ~decryptionContexts[requestId].processed

\* the outcome of the callback the oracle makes for a request: the decryption
\* of the dispatched ciphertext with the signatures of the KMS
OracleCallbackResult(requestId) ==
    onBatchDecryptedResult(requestId, TrueCleartext(requestId), "kms")

----------------------------------------------------------------------------
(* C5 as stated (Scenario C): for a batch stamped with an earlier version    *)
(* that holds contributions, closeBatch succeeds and a following             *)
(* requestBatchDecryption succeeds too.                                      *)

C5_StaleBatchCloseAndRequest ==
    \A batchId \in DOMAIN batches :
        LET v == BatchAt(batchId).modelVersion IN
        /\ (OpenStale(batchId) /\ SizeAt(batchId, v) > 0) =>
               \A sender \in Actors :
                   (providers[sender] /\ ~paused)
                       => closeBatchResult(sender, batchId) = "ok"
        /\ (ClosedStale(batchId) /\ SizeAt(batchId, v) > 0) =>
               \A sender \in Actors :
                   Admitted(sender)
                       => requestBatchDecryptionResult(sender, batchId) = "ok"

(* C5 amended: for a batch stamped with an earlier version that holds        *)
(* contributions, closeBatch by a provider succeeds while the system is not  *)
(* paused, and the close changes neither the accumulator nor the count of    *)
(* the batch; a following requestBatchDecryption does not succeed: past the  *)
(* pause and cooldown checks it reverts with "Stale batch".                  *)

C5_StaleClose ==
    \A batchId \in DOMAIN batches :
        LET v == BatchAt(batchId).modelVersion IN
        /\ (OpenStale(batchId) /\ SizeAt(batchId, v) > 0) =>
               \A sender \in Actors :
                   (providers[sender] /\ ~paused)
                       => closeBatchResult(sender, batchId) = "ok"
        /\ (ClosedStale(batchId) /\ SizeAt(batchId, v) > 0) =>
               \A sender \in Actors :
                   /\ requestBatchDecryptionResult(sender, batchId) # "ok"
                   /\ Admitted(sender) =>
                          requestBatchDecryptionResult(sender, batchId)
                              = "Stale batch"

C5_CloseStep ==
    \A batchId \in DOMAIN batches :
        (~BatchAt(batchId).closed /\ BatchAt(batchId).closed') =>
            \A v \in Versions :
                /\ AccumulatorAt(batchId, v)' = AccumulatorAt(batchId, v)
                /\ SizeAt(batchId, v)' = SizeAt(batchId, v)

C5_StaleBatchClosesOnly == []C5_StaleClose /\ [][C5_CloseStep]_vars

\* Scenario C up to the request: contributions, then the version increment,
\* then the close, and a caller whose request reaches the checks of the batch
C5_Witness ==
    \E batchId \in DOMAIN batches, sender \in Actors :
        /\ ClosedStale(batchId)
        /\ SizeAt(batchId, BatchAt(batchId).modelVersion) > 0
        /\ Admitted(sender)
        /\ \E i \in Positions("CropSubmitted"),
              j \in Positions("ModelVersionUpdated"),
              k \in Positions("BatchClosed") : i < j /\ j < k

----------------------------------------------------------------------------
(* C6: requestBatchDecryption on an existing closed batch whose stamp        *)
(* differs from the current version never succeeds, and past the pause and   *)
(* cooldown checks it reverts with "Stale batch"; so a step stores a context *)
(* and dispatches handles only for a batch stamped with the current version, *)
(* and the clock of an actor moves only together with an event naming that   *)
(* actor or a BatchOpened.                                                   *)

C6_StaleRequestRejects ==
    \A batchId \in DOMAIN batches, sender \in Actors :
        ClosedStale(batchId) =>
            /\ requestBatchDecryptionResult(sender, batchId) # "ok"
            /\ Admitted(sender) =>
                   requestBatchDecryptionResult(sender, batchId) = "Stale batch"

C6_RequestStep ==
    /\ \A r \in DOMAIN decryptionContexts' \cup DOMAIN requestedHandles' :
           (r \notin DOMAIN decryptionContexts \/ r \notin DOMAIN requestedHandles)
           => /\ r \in DOMAIN decryptionContexts'
              /\ r \in DOMAIN requestedHandles'
              /\ ~ClosedStale(decryptionContexts'[r].batchId)
              /\ BatchAt(decryptionContexts'[r].batchId).closed
              /\ decryptionContexts'[r].modelVersion = currentModelVersion
              /\ events' = Append(events,
                     DecryptionRequested(r, decryptionContexts'[r].batchId,
                                         decryptionContexts'[r].requester))
    /\ \A a \in Actors :
           lastActionAt'[a] # lastActionAt[a] =>
               /\ Len(events') = Len(events) + 1
               /\ events'[Len(events')].name
                      \in {"BatchOpened", "CropSubmitted", "DecryptionRequested"}
               /\ events'[Len(events')].account \in {a, NoAddr}

C6_NoRequestForStaleBatch == []C6_StaleRequestRejects /\ [][C6_RequestStep]_vars

\* a closed batch with contributions and a pending request, stale after a
\* version increment, and a caller past the pause and cooldown checks
C6_Witness ==
    \E batchId \in DOMAIN batches, sender \in Actors :
        /\ ClosedStale(batchId)
        /\ Admitted(sender)
        /\ requestBatchDecryptionResult(sender, batchId) = "Stale batch"
        /\ \E r \in DOMAIN decryptionContexts :
               decryptionContexts[r].batchId = batchId

----------------------------------------------------------------------------
(* C7 as stated: once the version has been incremented after a request, the  *)
(* oracle's callback for the request reverts with "Version mismatch".        *)

C7_BumpInvalidatesPending ==
    \A r \in DOMAIN decryptionContexts :
        (Pending(r) /\ decryptionContexts[r].modelVersion < currentModelVersion)
            => OracleCallbackResult(r) = "Version mismatch"

(* C7 amended: a version increment between a request and its callback does   *)
(* not invalidate the request.  The callback compares the stamp of the batch *)
(* with the version recorded in the context, and both are fixed when the     *)
(* request is stored: no callback reverts with "Version mismatch", and the   *)
(* oracle's callback for a pending request succeeds also after an increment. *)

C7_BumpKeepsPending ==
    /\ \A r \in RequestArgs :
           \A cleartexts \in CleartextArgs(r), proof \in Proofs :
               onBatchDecryptedResult(r, cleartexts, proof) # "Version mismatch"
    /\ \A r \in DOMAIN decryptionContexts :
           /\ BatchAt(decryptionContexts[r].batchId).modelVersion
                  = decryptionContexts[r].modelVersion
           /\ (Pending(r)
                 /\ decryptionContexts[r].modelVersion < currentModelVersion)
                  => OracleCallbackResult(r) = "ok"

\* a request, then the version increment, then the successful callback
C7_Witness ==
    \E r \in DOMAIN decryptionContexts :
        /\ decryptionContexts[r].processed
        /\ \E i \in EventsOf("DecryptionRequested", r),
              j \in Positions("ModelVersionUpdated"),
              k \in EventsOf("DecryptionCompleted", r) : i < j /\ j < k

----------------------------------------------------------------------------
(* Vocabulary of the accumulator properties *)

\* the positions of the CropSubmitted events of a key
SubmissionsOf(batchId, version) ==
    {i \in DOMAIN events :
        /\ events[i].name = "CropSubmitted"
        /\ events[i].batchId = batchId
        /\ events[i].modelVersion = version}

----------------------------------------------------------------------------
(* C8: the accumulator stored under (batchId, version) decrypts to the sum,  *)
(* modulo 2^32, of yield + resistance + growthRate over the bag of the       *)
(* contributions submitCrop accepted for the key (a bag has no order), the   *)
(* count of the key is the size of that bag and the number of CropSubmitted  *)
(* events of the key, and the accumulator is uninitialized exactly when      *)
(* nothing was accepted.  A step changes the accumulator of a key only by    *)
(* accepting one contribution: the sender passes every check of submitCrop   *)
(* for the batch, the key is the one of the current version, and the         *)
(* decryption grows by the contribution's three fields.                      *)

C8_AccumulatorIsSum ==
    \A key \in Keys :
        /\ Decrypt(AccumulatorAt(key[1], key[2]))
               = Sum32(AcceptedAt(key[1], key[2]))
        /\ SizeAt(key[1], key[2]) = BagCardinality(AcceptedAt(key[1], key[2]))
        /\ SizeAt(key[1], key[2])
               = Cardinality(SubmissionsOf(key[1], key[2]))
        /\ isInitialized(AccumulatorAt(key[1], key[2]))
               <=> AcceptedAt(key[1], key[2]) # EmptyBag

C8_AccumulatorStep ==
    \A key \in Keys :
        AccumulatorAt(key[1], key[2])' # AccumulatorAt(key[1], key[2]) =>
            /\ key[2] = currentModelVersion
            /\ \E sender \in Actors : submitCropResult(sender, key[1]) = "ok"
            /\ \E c \in Contributions :
                   /\ AcceptedAt(key[1], key[2])'
                          = AcceptedAt(key[1], key[2]) (+) SetToBag({c})
                   /\ Decrypt(AccumulatorAt(key[1], key[2])')
                          = Add32(Decrypt(AccumulatorAt(key[1], key[2])),
                                  Add32(Add32(c[1], c[2]), c[3]))
            /\ \A other \in Keys \ {key} :
                   AccumulatorAt(other[1], other[2])'
                       = AccumulatorAt(other[1], other[2])

C8_AccumulatorSumsAccepted ==
    []C8_AccumulatorIsSum /\ [][C8_AccumulatorStep]_vars

\* two contributions accepted for one key, one of them wrapping around 2^32
C8_Witness ==
    \E key \in Keys :
        /\ BagCardinality(AcceptedAt(key[1], key[2])) = 2
        /\ BagIn(<<Max32, Max32, U32(2)>>, AcceptedAt(key[1], key[2]))
        /\ BagIn(<<U32(3), U32(4), U32(0)>>, AcceptedAt(key[1], key[2]))
        /\ Decrypt(AccumulatorAt(key[1], key[2])) = U32(7)

----------------------------------------------------------------------------
(* C9: the lifecycle completes.  For a closed batch of the current version   *)
(* that holds an accepted contribution, requestBatchDecryption by a sender   *)
(* that passes the pause and cooldown checks succeeds.  For a request that   *)
(* no callback has consumed, the ciphertext dispatched is the accumulator    *)
(* of the request's batch, its decryption is the sum of the accepted         *)
(* contributions, and the oracle's callback succeeds.  A successful callback *)
(* marks the context processed and appends DecryptionCompleted with the      *)
(* request, the context's batch and that sum, and a processed context has    *)
(* its DecryptionCompleted event in the log.                                 *)

C9_RequestAndCallbackSucceed ==
    /\ \A sender \in Actors, batchId \in DOMAIN batches :
           ( /\ Admitted(sender)
             /\ BatchAt(batchId).closed
             /\ BatchAt(batchId).modelVersion = currentModelVersion
             /\ AcceptedAt(batchId, currentModelVersion) # EmptyBag )
               => requestBatchDecryptionResult(sender, batchId) = "ok"
    /\ \A r \in DOMAIN decryptionContexts :
           LET ctx == decryptionContexts[r] IN
           /\ requestedHandles[r]
                  = <<AccumulatorAt(ctx.batchId, ctx.modelVersion)>>
           /\ TrueCleartext(r)
                  = Sum32(AcceptedAt(ctx.batchId, ctx.modelVersion))
           /\ AcceptedAt(ctx.batchId, ctx.modelVersion) # EmptyBag
           /\ Pending(r) => OracleCallbackResult(r) = "ok"
           /\ ctx.processed <=> EventsOf("DecryptionCompleted", r) # {}
    /\ \A i \in Positions("DecryptionCompleted") :
           /\ events[i].requestId \in DOMAIN decryptionContexts
           /\ events[i].batchId
                  = decryptionContexts[events[i].requestId].batchId
           /\ events[i].totalScore = TrueCleartext(events[i].requestId)

C9_CallbackStep ==
    \A r \in DOMAIN decryptionContexts :
        (Pending(r) /\ ~Pending(r)') =>
            /\ decryptionContexts'[r]
                   = [decryptionContexts[r] EXCEPT !.processed = TRUE]
            /\ events' = Append(events,
                   DecryptionCompleted(r, decryptionContexts[r].batchId,
                       Sum32(AcceptedAt(decryptionContexts[r].batchId,
                                        decryptionContexts[r].modelVersion))))

C9_LifecycleCompletes ==
    []C9_RequestAndCallbackSucceed /\ [][C9_CallbackStep]_vars

\* Scenario A: a batch opened at version 1, the contributions (3, 4) and
\* (5, 2), the batch closed, one request, and its callback delivering 14
C9_Witness ==
    /\ currentModelVersion = 1
    /\ \E batchId \in DOMAIN batches, r \in DOMAIN decryptionContexts :
           /\ AcceptedAt(batchId, 1)
                  = SetToBag({<<U32(3), U32(4), U32(0)>>,
                              <<U32(5), U32(2), U32(0)>>})
           /\ decryptionContexts[r].batchId = batchId
           /\ decryptionContexts[r].processed
           /\ \E o \in Positions("BatchOpened"),
                 s1 \in SubmissionsOf(batchId, 1),
                 s2 \in SubmissionsOf(batchId, 1),
                 c \in Positions("BatchClosed"),
                 q \in EventsOf("DecryptionRequested", r),
                 d \in EventsOf("DecryptionCompleted", r) :
                   /\ o < s1 /\ s1 < s2 /\ s2 < c /\ c < q /\ q < d
                   /\ events[o].batchId = batchId
                   /\ events[c].batchId = batchId
                   /\ events[d].batchId = batchId
                   /\ events[d].totalScore = U32(14)

----------------------------------------------------------------------------
(* C10: requests for one batch are independent.  A closed batch of the       *)
(* current version with an initialized accumulator accepts a further         *)
(* request from a sender that passes the pause and cooldown checks, however  *)
(* many requests it already has, pending or processed.  Of two requests for  *)
(* the same batch, the one still pending has a succeeding oracle callback    *)
(* whether or not the other has been processed, in either order of issue.    *)
(* A step that issues or consumes a request leaves every other context as    *)
(* it is, and each consumed request has exactly one DecryptionCompleted      *)
(* event, carrying its own identifier.                                       *)

C10_RequestsIndependent ==
    /\ \A sender \in Actors, batchId \in DOMAIN batches :
           ( /\ Admitted(sender)
             /\ BatchAt(batchId).closed
             /\ BatchAt(batchId).modelVersion = currentModelVersion
             /\ isInitialized(AccumulatorAt(batchId, currentModelVersion))
             /\ \E r \in DOMAIN decryptionContexts :
                    decryptionContexts[r].batchId = batchId )
               => requestBatchDecryptionResult(sender, batchId) = "ok"
    /\ \A r1 \in DOMAIN decryptionContexts :
           \A r2 \in DOMAIN decryptionContexts \ {r1} :
               ( /\ decryptionContexts[r1].batchId
                        = decryptionContexts[r2].batchId
                 /\ Pending(r1) )
                   => OracleCallbackResult(r1) = "ok"
    /\ \A r \in DOMAIN decryptionContexts :
           decryptionContexts[r].processed =>
               Cardinality(EventsOf("DecryptionCompleted", r)) = 1

C10_ContextStep ==
    \A r \in DOMAIN decryptionContexts' :
        ( \/ r \notin DOMAIN decryptionContexts
          \/ decryptionContexts'[r] # decryptionContexts[r] )
            => \A q \in DOMAIN decryptionContexts \ {r} :
                   decryptionContexts'[q] = decryptionContexts[q]

C10_ConcurrentRequests ==
    []C10_RequestsIndependent /\ [][C10_ContextStep]_vars

\* Scenario D: two requests for one batch, the callback of the second
\* delivered before the callback of the first
C10_Witness ==
    \E r1 \in DOMAIN decryptionContexts, r2 \in DOMAIN decryptionContexts :
        /\ r1 < r2
        /\ decryptionContexts[r1].batchId = decryptionContexts[r2].batchId
        /\ decryptionContexts[r1].processed
        /\ decryptionContexts[r2].processed
        /\ \E d1 \in EventsOf("DecryptionCompleted", r1),
              d2 \in EventsOf("DecryptionCompleted", r2) : d2 < d1

----------------------------------------------------------------------------
(* Vocabulary of the reveals of a batch *)

\* the positions of the DecryptionCompleted events of a batch
CompletedOf(batchId) ==
    {i \in Positions("DecryptionCompleted") : events[i].batchId = batchId}

\* the requests of a batch that a callback has consumed
ProcessedOf(batchId) ==
    {r \in DOMAIN decryptionContexts :
        /\ decryptionContexts[r].batchId = batchId
        /\ decryptionContexts[r].processed}

----------------------------------------------------------------------------
(* C11 as stated: DecryptionCompleted is in the log at most once per batch   *)
(* identifier.                                                               *)

C11_CompletedOncePerBatch ==
    \A batchId \in DOMAIN batches : Cardinality(CompletedOf(batchId)) <= 1

(* C11 amended: DecryptionCompleted is emitted once per request, not once    *)
(* per batch.  The DecryptionCompleted events of a batch are those of its    *)
(* consumed requests, one each, so a batch with n consumed requests has n    *)
(* of them, and all of them carry the same value: the sum of the             *)
(* contributions accepted under the batch's stamped version.                 *)

C11_CompletedOncePerRequest ==
    \A batchId \in BatchArgs :
        /\ Cardinality(CompletedOf(batchId))
               = Cardinality(ProcessedOf(batchId))
        /\ \A i \in CompletedOf(batchId) :
               /\ events[i].requestId \in ProcessedOf(batchId)
               /\ events[i].totalScore
                      = Sum32(AcceptedAt(batchId, BatchAt(batchId).modelVersion))
               /\ \A j \in CompletedOf(batchId) \ {i} :
                      events[j].requestId # events[i].requestId

\* a batch whose sum has been revealed twice, by two requests
C11_Witness ==
    \E batchId \in DOMAIN batches :
        /\ Cardinality(CompletedOf(batchId)) = 2
        /\ Cardinality(ProcessedOf(batchId)) = 2

----------------------------------------------------------------------------
(* C12: a failing call changes nothing and emits nothing.  A call fails by   *)
(* reverting, which undoes the whole call, so the failing calls are not      *)
(* steps; what the operations must ensure is that no step makes a change     *)
(* without a successful call behind it.  A step that appends no event        *)
(* leaves the model version, every lastActionAt, the batches, the contexts,  *)
(* the accumulators, the counts and the request counter unchanged.  A step   *)
(* appends at most one event, and the call the event names, with the         *)
(* arguments the event carries, passes every check of its operation in the   *)
(* state before the step.  The capacity changes only to a value that         *)
(* setBatchSizeLimit accepts.                                                *)

\* the event the step appends is the event of a successful call
C12_EventOfSuccessfulCall(e) ==
    CASE e.name = "BatchOpened" ->
             /\ e.batchId = openBatchId
             /\ \E sender \in Actors :
                    /\ openBatchResult(sender) = "ok"
                    /\ lastActionAt' = [lastActionAt EXCEPT ![sender] = now]
      [] e.name = "BatchClosed" ->
             /\ \E sender \in Actors : closeBatchResult(sender, e.batchId) = "ok"
             /\ lastActionAt' = lastActionAt
      [] e.name = "CropSubmitted" ->
             /\ submitCropResult(e.account, e.batchId) = "ok"
             /\ lastActionAt' = [lastActionAt EXCEPT ![e.account] = now]
      [] e.name = "DecryptionRequested" ->
             /\ requestBatchDecryptionResult(e.account, e.batchId) = "ok"
             /\ lastActionAt' = [lastActionAt EXCEPT ![e.account] = now]
      [] e.name = "DecryptionCompleted" ->
             /\ \E proof \in Proofs :
                    onBatchDecryptedResult(e.requestId, e.totalScore, proof)
                        = "ok"
             /\ lastActionAt' = lastActionAt
      [] e.name = "ModelVersionUpdated" ->
             /\ \E sender \in Actors : incrementModelVersionResult(sender) = "ok"
             /\ lastActionAt' = lastActionAt
      [] OTHER -> FALSE

C12_FailedCallStep ==
    /\ events' = events =>
           UNCHANGED <<currentModelVersion, lastActionAt, batches,
                       decryptionContexts, batchAccumulators, batchSizes,
                       batchVersions, counterRequest, requestedHandles>>
    /\ events' # events =>
           /\ Len(events') = Len(events) + 1
           /\ SubSeq(events', 1, Len(events)) = events
           /\ C12_EventOfSuccessfulCall(events'[Len(events')])
           /\ UNCHANGED config
    /\ batchSizeLimit' # batchSizeLimit =>
           \E sender \in Actors :
               setBatchSizeLimitResult(sender, batchSizeLimit') = "ok"

C12_FailedCallsChangeNothing == [][C12_FailedCallStep]_vars

\* after some calls succeeded, a state in which calls of the admin, of the
\* batch lifecycle and of the decryption protocol fail for reasons of their
\* own
C12_Witness ==
    /\ Len(events) > 3
    /\ setBatchSizeLimitResult(owner, 0) = "Invalid limit"
    /\ \E sender \in Actors, batchId \in DOMAIN batches :
           /\ submitCropResult(sender, batchId) = "Batch full"
           /\ requestBatchDecryptionResult(sender, batchId) = "Batch not closed"
    /\ \E sender \in Actors : openBatchResult(sender) = "TooFrequent"
    /\ \A proof \in Proofs :
           onBatchDecryptedResult(counterRequest, U32(1), proof)
               = "Invalid context"

----------------------------------------------------------------------------
(* C13: while the contract is paused, openBatch, closeBatch, submitCrop,     *)
(* requestBatchDecryption and onBatchDecrypted all fail (with "Paused" for   *)
(* a caller that passes the role check made before the pause check), and a   *)
(* step between a pause and the following unpause changes no batch, no       *)
(* accumulator, no count and no decryption context.                          *)

\* the four operations under whenNotPaused
C13_PausedLifecycleRejects ==
    paused =>
        \A sender \in Actors, batchId \in BatchArgs :
            /\ openBatchResult(sender)
                   = (IF providers[sender] THEN "Paused" ELSE "NotProvider")
            /\ closeBatchResult(sender, batchId)
                   = (IF providers[sender] THEN "Paused" ELSE "NotProvider")
            /\ submitCropResult(sender, batchId)
                   = (IF providers[sender] THEN "Paused" ELSE "NotProvider")
            /\ requestBatchDecryptionResult(sender, batchId) = "Paused"

\* the callback
C13_PausedCallbackRejects ==
    paused =>
        \A r \in RequestArgs :
            \A cleartexts \in CleartextArgs(r), proof \in Proofs :
                onBatchDecryptedResult(r, cleartexts, proof) # "ok"

C13_PausedStep ==
    (paused /\ paused') =>
        UNCHANGED <<batches, batchAccumulators, batchSizes, decryptionContexts>>

C13_PausedFreezesEverything ==
    /\ []C13_PausedLifecycleRejects
    /\ []C13_PausedCallbackRejects
    /\ [][C13_PausedStep]_vars

\* what holds of the pause: the four operations are rejected and the batches,
\* accumulators and counts are frozen
C13_PausedFreezesLifecycle ==
    /\ []C13_PausedLifecycleRejects
    /\ [][(paused /\ paused') =>
              UNCHANGED <<batches, batchAccumulators, batchSizes>>]_vars

----------------------------------------------------------------------------
(* C14: batch records are never reused or reopened.  Every stored batch      *)
(* exists under the identifier derived from its stamped version and its      *)
(* creation time, and an open batch has no close time.  openBatch by a       *)
(* provider that passes the pause and cooldown checks reverts with "Batch    *)
(* exists" when the identifier of the block is taken, and closeBatch by a    *)
(* provider on a closed batch reverts with "Batch closed" while the          *)
(* contract is not paused.  In every step a stored batch stays stored with   *)
(* its creation time and stamped version, and a closed batch keeps its       *)
(* whole record, the close time included.                                    *)

C14_BatchRecords ==
    /\ \A batchId \in DOMAIN batches :
           /\ batches[batchId].exists
           /\ batchId = BatchIdOf(batches[batchId].modelVersion,
                                  batches[batchId].createdAt)
           /\ ~batches[batchId].closed => batches[batchId].closedAt = 0
           /\ batches[batchId].closed =>
                  batches[batchId].closedAt >= batches[batchId].createdAt
    /\ \A sender \in Actors :
           /\ (AdmittedProvider(sender) /\ BatchAt(openBatchId).exists)
                  => openBatchResult(sender) = "Batch exists"
           /\ \A batchId \in DOMAIN batches :
                  (providers[sender] /\ ~paused /\ batches[batchId].closed)
                      => closeBatchResult(sender, batchId) = "Batch closed"

C14_BatchStep ==
    \A batchId \in DOMAIN batches :
        /\ batchId \in DOMAIN batches'
        /\ batches'[batchId].exists
        /\ batches'[batchId].createdAt = batches[batchId].createdAt
        /\ batches'[batchId].modelVersion = batches[batchId].modelVersion
        /\ batches[batchId].closed => batches'[batchId] = batches[batchId]

C14_BatchesNeverReused == []C14_BatchRecords /\ [][C14_BatchStep]_vars

\* a batch closed in an earlier block: closing it again is refused
C14_Witness ==
    \E sender \in Actors, batchId \in DOMAIN batches :
        /\ batches[batchId].closed
        /\ now > batches[batchId].closedAt
        /\ closeBatchResult(sender, batchId) = "Batch closed"

----------------------------------------------------------------------------
(* C15: the accumulator and the count of a key (batchId, version) change     *)
(* only in a successful submitCrop for the batch.  In a step that changes    *)
(* either, the batch exists and is open, the version of the key is the       *)
(* batch's stamped version and the current version, some sender passes       *)
(* every check of submitCrop, the step appends that sender's CropSubmitted   *)
(* event, the count grows by exactly 1, the accumulator becomes the sum of   *)
(* the stored one (zero when uninitialized) and one contribution, and no     *)
(* other key, no batch and no context changes.  A step that appends no       *)
(* CropSubmitted event (closeBatch, requestBatchDecryption, onBatchDecrypted,*)
(* openBatch, the admin operations) changes no accumulator and no count.     *)

\* the keys stored before or after a step
C15_StoredKeys ==
    Keys \cup DOMAIN batchAccumulators \cup DOMAIN batchSizes
         \cup DOMAIN batchAccumulators' \cup DOMAIN batchSizes'

C15_KeyChanged(key) ==
    \/ AccumulatorAt(key[1], key[2])' # AccumulatorAt(key[1], key[2])
    \/ SizeAt(key[1], key[2])' # SizeAt(key[1], key[2])

C15_WriteStep ==
    \A key \in C15_StoredKeys :
        C15_KeyChanged(key) =>
            /\ BatchAt(key[1]).exists
            /\ ~BatchAt(key[1]).closed
            /\ key[2] = BatchAt(key[1]).modelVersion
            /\ key[2] = currentModelVersion
            /\ SizeAt(key[1], key[2])' = SizeAt(key[1], key[2]) + 1
            /\ \E c \in Contributions :
                   AccumulatorAt(key[1], key[2])' =
                       FheAdd(IF isInitialized(AccumulatorAt(key[1], key[2]))
                              THEN AccumulatorAt(key[1], key[2])
                              ELSE asEuint32Zero,
                              FheAdd(FheAdd(Encrypt(c[1]), Encrypt(c[2])),
                                     Encrypt(c[3])))
            /\ \E sender \in Actors :
                   /\ submitCropResult(sender, key[1]) = "ok"
                   /\ events' = Append(events,
                                       CropSubmitted(sender, key[1], key[2]))
            /\ \A other \in C15_StoredKeys \ {key} : ~C15_KeyChanged(other)
            /\ UNCHANGED <<batches, decryptionContexts>>

C15_OtherStep ==
    (events' = events \/ events'[Len(events')].name # "CropSubmitted")
        => UNCHANGED <<batchAccumulators, batchSizes>>

C15_OnlySubmitCropWrites == [][C15_WriteStep /\ C15_OtherStep]_vars

\* two contributions accepted, then the batch closed, its sum requested and
\* revealed and the version incremented: the accumulator and count are those
\* of the two contributions
C15_Witness ==
    \E batchId \in DOMAIN batches, r \in DOMAIN decryptionContexts :
        /\ batches[batchId].closed
        /\ batches[batchId].modelVersion < currentModelVersion
        /\ decryptionContexts[r].batchId = batchId
        /\ decryptionContexts[r].processed
        /\ SizeAt(batchId, batches[batchId].modelVersion) = 2
        /\ Cardinality(SubmissionsOf(batchId, batches[batchId].modelVersion)) = 2

----------------------------------------------------------------------------
(* C16: openBatch, submitCrop and requestBatchDecryption share one clock     *)
(* per actor.  For a caller that passes the checks made before the cooldown  *)
(* check (the provider role for openBatch and submitCrop, the pause for all  *)
(* three), each of the three reverts with "TooFrequent" when                 *)
(* now < lastActionAt[a] + cooldownInterval and none of them does when       *)
(* now >= lastActionAt[a] + cooldownInterval; no caller succeeds in any of   *)
(* them before the interval has elapsed.  A step changes lastActionAt[a]     *)
(* only by setting it to now, in a successful call of one of the three that  *)
(* a makes after its interval has elapsed, and leaves the other actors'      *)
(* entries unchanged; each successful call of the three sets it.             *)

\* the interval of the actor has not elapsed
C16_TooSoon(a) == now < lastActionAt[a] + cooldownInterval

C16_SharedClock ==
    \A a \in Actors, batchId \in BatchArgs :
        /\ (providers[a] /\ ~paused) =>
               /\ openBatchResult(a) = "TooFrequent" <=> C16_TooSoon(a)
               /\ submitCropResult(a, batchId) = "TooFrequent"
                      <=> C16_TooSoon(a)
        /\ ~paused =>
               (requestBatchDecryptionResult(a, batchId) = "TooFrequent"
                    <=> C16_TooSoon(a))
        /\ C16_TooSoon(a) =>
               /\ openBatchResult(a) # "ok"
               /\ submitCropResult(a, batchId) # "ok"
               /\ requestBatchDecryptionResult(a, batchId) # "ok"

\* the rate-limited operations, by the names of their events
C16_RateLimited == {"BatchOpened", "CropSubmitted", "DecryptionRequested"}

C16_ClockStep ==
    /\ \A a \in Actors :
           lastActionAt'[a] # lastActionAt[a] =>
               /\ lastActionAt'[a] = now
               /\ ~C16_TooSoon(a)
               /\ \A other \in Actors \ {a} :
                      lastActionAt'[other] = lastActionAt[other]
               /\ Len(events') = Len(events) + 1
               /\ events'[Len(events')].name \in C16_RateLimited
               /\ events'[Len(events')].name # "BatchOpened" =>
                      events'[Len(events')].account = a
    /\ (events' # events /\ events'[Len(events')].name \in C16_RateLimited) =>
           \E a \in Actors :
               /\ lastActionAt'[a] = now
               /\ lastActionAt[a] # now

C16_OneClockPerActor == []C16_SharedClock /\ [][C16_ClockStep]_vars

\* an actor whose last action was a submission is refused by all three
\* operations, and another actor is not
C16_Witness ==
    \E a \in Actors, batchId \in DOMAIN batches :
        /\ events[Len(events)] = CropSubmitted(a, batchId, currentModelVersion)
        /\ openBatchResult(a) = "TooFrequent"
        /\ submitCropResult(a, batchId) = "TooFrequent"
        /\ requestBatchDecryptionResult(a, batchId) = "TooFrequent"
        /\ \E other \in Actors \ {a} :
               /\ lastActionAt[other] + cooldownInterval = now
               /\ submitCropResult(other, batchId) = "ok"

----------------------------------------------------------------------------
(* C17: a decryption context moves only from requested to completed.  The    *)
(* stored contexts are those of the request identifiers issued so far, each  *)
(* with one DecryptionRequested event and a requester, so a request that     *)
(* fails stores nothing.  A step creates a context only under the next       *)
(* identifier, unprocessed, in a successful requestBatchDecryption of its    *)
(* requester; it changes a stored context only from unprocessed to           *)
(* processed, nothing else of it, in a successful onBatchDecrypted for its   *)
(* identifier; and it never deletes a context nor changes a processed one.   *)

C17_ContextsAreRequests ==
    /\ DOMAIN decryptionContexts = 0..(counterRequest - 1)
    /\ CountEvents("DecryptionRequested") = counterRequest
    /\ \A r \in DOMAIN decryptionContexts :
           /\ decryptionContexts[r].requester \in Actors
           /\ Cardinality(EventsOf("DecryptionRequested", r)) = 1

C17_LifecycleStep ==
    /\ \A r \in DOMAIN decryptionContexts' \ DOMAIN decryptionContexts :
           LET ctx == decryptionContexts'[r] IN
           /\ r = counterRequest
           /\ ~ctx.processed
           /\ requestBatchDecryptionResult(ctx.requester, ctx.batchId) = "ok"
           /\ events' = Append(events,
                  DecryptionRequested(r, ctx.batchId, ctx.requester))
    /\ \A r \in DOMAIN decryptionContexts :
           /\ r \in DOMAIN decryptionContexts'
           /\ decryptionContexts[r].processed =>
                  decryptionContexts'[r] = decryptionContexts[r]
           /\ decryptionContexts'[r] # decryptionContexts[r] =>
                  /\ decryptionContexts'[r] =
                         [decryptionContexts[r] EXCEPT !.processed = TRUE]
                  /\ \E cleartexts \in CleartextArgs(r), proof \in Proofs :
                         /\ onBatchDecryptedResult(r, cleartexts, proof) = "ok"
                         /\ events' = Append(events,
                                DecryptionCompleted(r,
                                    decryptionContexts[r].batchId, cleartexts))

C17_RequestedThenCompleted ==
    []C17_ContextsAreRequests /\ [][C17_LifecycleStep]_vars

\* a request completed, then a further request for the same batch issued:
\* the completed context is still there and processed
C17_Witness ==
    \E r1 \in DOMAIN decryptionContexts, r2 \in DOMAIN decryptionContexts :
        /\ decryptionContexts[r1].processed
        /\ ~decryptionContexts[r2].processed
        /\ decryptionContexts[r1].batchId = decryptionContexts[r2].batchId
        /\ \E d \in EventsOf("DecryptionCompleted", r1),
              q \in EventsOf("DecryptionRequested", r2) : d < q

----------------------------------------------------------------------------
(* C18: a callback whose proof fails verification is refused and may be      *)
(* retried.  For a request that no callback has consumed, onBatchDecrypted   *)
(* reverts with "InvalidProof" for every proof and cleartext that            *)
(* checkSignatures does not accept, and in the same state the callback with  *)
(* the oracle's cleartext and signatures succeeds.  A context becomes        *)
(* processed only in a step that emits the oracle's cleartext, never a       *)
(* value that failed the verification.                                       *)

C18_InvalidProofRejects ==
    \A r \in DOMAIN decryptionContexts :
        Pending(r) =>
            /\ \A cleartexts \in CleartextArgs(r), proof \in Proofs :
                   onBatchDecryptedResult(r, cleartexts, proof) =
                       (IF checkSignatures(r, cleartexts, proof)
                        THEN "ok" ELSE "InvalidProof")
            /\ \E cleartexts \in CleartextArgs(r), proof \in Proofs :
                   ~checkSignatures(r, cleartexts, proof)
            /\ OracleCallbackResult(r) = "ok"

C18_CompletionStep ==
    \A r \in DOMAIN decryptionContexts :
        (Pending(r) /\ ~Pending(r)') =>
            /\ Len(events') = Len(events) + 1
            /\ events'[Len(events')].name = "DecryptionCompleted"
            /\ events'[Len(events')].requestId = r
            /\ checkSignatures(r, events'[Len(events')].totalScore, "kms")

C18_InvalidProofRetried ==
    []C18_InvalidProofRejects /\ [][C18_CompletionStep]_vars

\* a pending request for which a forged proof of the true cleartext and a
\* signed proof of another cleartext are both refused
C18_Witness ==
    \E r \in DOMAIN decryptionContexts :
        /\ Pending(r)
        /\ onBatchDecryptedResult(r, TrueCleartext(r), "forged") = "InvalidProof"
        /\ onBatchDecryptedResult(r, U32(1), "kms") = "InvalidProof"
        /\ onBatchDecryptedResult(r, TrueCleartext(r), "kms") = "ok"

----------------------------------------------------------------------------
(* C19: a callback for a request identifier that has no stored context       *)
(* reverts with "Invalid context", whatever cleartext and proof it carries,  *)
(* and every DecryptionCompleted event in the log is for a request that has  *)
(* a stored context and an earlier DecryptionRequested event.                *)

\* request identifiers without a context: the next one and later ones
C19_UnknownRequests == (0..(counterRequest + 2)) \ DOMAIN decryptionContexts

C19_UnknownRequestRejects ==
    /\ \A r \in C19_UnknownRequests :
           \A cleartexts \in {U32(0), U32(1), U32(7)}, proof \in Proofs :
               onBatchDecryptedResult(r, cleartexts, proof) = "Invalid context"
    /\ \A i \in Positions("DecryptionCompleted") :
           /\ events[i].requestId \in DOMAIN decryptionContexts
           /\ \E q \in EventsOf("DecryptionRequested", events[i].requestId) :
                  q < i

\* requests have been issued and consumed, and the next identifier is unknown
C19_Witness ==
    /\ counterRequest > 0
    /\ Positions("DecryptionCompleted") # {}
    /\ counterRequest \in C19_UnknownRequests
    /\ onBatchDecryptedResult(counterRequest, U32(7), "kms") = "Invalid context"

----------------------------------------------------------------------------
(* C20: the roles gate the operations.  Every admin operation called by an   *)
(* actor other than the owner reverts with "NotOwner", whatever its          *)
(* arguments, and exactly one actor is the owner; openBatch, closeBatch and  *)
(* submitCrop called by an actor that is not a provider revert with          *)
(* "NotProvider".  After a step that takes the ownership from an actor,      *)
(* every admin operation rejects that actor, and after a step that removes   *)
(* a provider, openBatch, closeBatch and submitCrop reject it; an actor       *)
(* becomes a provider only by a step of the owner's addProvider.             *)

\* the outcomes of the admin operations for a caller
C20_AdminResults(sender) ==
    {transferOwnershipResult(sender), addProviderResult(sender),
     removeProviderResult(sender), setPausedResult(sender),
     setCooldownIntervalResult(sender), incrementModelVersionResult(sender)}
        \cup {setBatchSizeLimitResult(sender, newLimit) :
                  newLimit \in LimitChoices \cup {DefaultBatchSizeLimit}}

\* the outcomes of the provider operations for a caller
C20_ProviderResults(sender) ==
    {openBatchResult(sender)}
        \cup {closeBatchResult(sender, batchId) : batchId \in BatchArgs}
        \cup {submitCropResult(sender, batchId) : batchId \in BatchArgs}

C20_RolesReject ==
    /\ Cardinality({sender \in Actors :
                       transferOwnershipResult(sender) = "ok"}) = 1
    /\ \A sender \in Actors :
           /\ sender # owner => C20_AdminResults(sender) = {"NotOwner"}
           /\ sender = owner =>
                  C20_AdminResults(sender) = {"ok", "Invalid limit"}
           /\ ~providers[sender] =>
                  C20_ProviderResults(sender) = {"NotProvider"}
           /\ providers[sender] =>
                  "NotProvider" \notin C20_ProviderResults(sender)

C20_RoleStep ==
    \A a \in Actors :
        /\ (a = owner /\ owner' # a) =>
               /\ C20_AdminResults(a)' = {"NotOwner"}
               /\ \E newOwner \in Actors : transferOwnership(a, newOwner)
        /\ (providers[a] /\ ~providers'[a]) =>
               /\ C20_ProviderResults(a)' = {"NotProvider"}
               /\ removeProvider(owner, a)
        /\ (~providers[a] /\ providers'[a]) => addProvider(owner, a)

C20_RolesGateOperations == []C20_RolesReject /\ [][C20_RoleStep]_vars

\* the ownership has moved away from the deployer and the deployer has been
\* removed from the providers: both roles reject it
C20_Witness ==
    /\ owner # Deployer
    /\ ~providers[Deployer]
    /\ C20_AdminResults(Deployer) = {"NotOwner"}
    /\ C20_ProviderResults(Deployer) = {"NotProvider"}
    /\ providers[owner]

----------------------------------------------------------------------------
(* C21: requestBatchDecryption and onBatchDecrypted do not look at the role  *)
(* or the identity of the caller.  Two callers with the same standing at     *)
(* the rate limiter get the same outcome from requestBatchDecryption for     *)
(* every batch, whichever of them is the owner or a provider.  A step that   *)
(* stores a context stores the batch, the current version, the hash of the   *)
(* batch's accumulator and processed = false, whoever the requester is, and  *)
(* changes no batch, accumulator or count; a successful request by one       *)
(* caller would have succeeded for every caller of the same standing.  A     *)
(* step that is a callback by one caller is the same step for every other    *)
(* caller.                                                                   *)

C21_SameOutcome ==
    \A a \in Actors, b \in Actors, batchId \in BatchArgs :
        (C16_TooSoon(a) <=> C16_TooSoon(b)) =>
            requestBatchDecryptionResult(a, batchId)
                = requestBatchDecryptionResult(b, batchId)

C21_SameEffect ==
    /\ \A r \in DOMAIN decryptionContexts' \ DOMAIN decryptionContexts :
           LET ctx == decryptionContexts'[r] IN
           /\ [ctx EXCEPT !.requester = NoAddr] =
                  [batchId |-> ctx.batchId,
                   modelVersion |-> currentModelVersion,
                   stateHash |-> hashCiphertexts(
                       <<toBytes32(AccumulatorAt(ctx.batchId,
                                                 currentModelVersion))>>),
                   processed |-> FALSE,
                   requester |-> NoAddr]
           /\ UNCHANGED <<batches, batchAccumulators, batchSizes>>
           /\ \A other \in Actors :
                  (C16_TooSoon(other) <=> C16_TooSoon(ctx.requester)) =>
                      requestBatchDecryptionResult(other, ctx.batchId) = "ok"
    /\ \A a \in Actors, b \in Actors, r \in DOMAIN decryptionContexts :
           \A cleartexts \in CleartextArgs(r), proof \in Proofs :
               onBatchDecrypted(a, r, cleartexts, proof)
                   => onBatchDecrypted(b, r, cleartexts, proof)

C21_CallerIndependent == []C21_SameOutcome /\ [][C21_SameEffect]_vars

\* a request just made by an actor that is neither the owner nor a provider
C21_Witness ==
    \E a \in Actors, batchId \in DOMAIN batches :
        /\ a # owner
        /\ ~providers[a]
        /\ events[Len(events)]
               = DecryptionRequested(counterRequest - 1, batchId, a)
        /\ decryptionContexts[counterRequest - 1].requester = a

----------------------------------------------------------------------------
(* C22: requestBatchDecryption by a sender that passes the pause and         *)
(* cooldown checks reverts with "Batch not found" for a batch that does not  *)
(* exist, with "Batch not closed" for an open batch, and with InvalidState   *)
(* for a closed batch of the current version that holds no contribution.     *)
(* No sender succeeds in any of the three cases, and every stored context    *)
(* refers to a batch that exists, is closed and holds a contribution under   *)
(* the version the context records.                                          *)

C22_RequestRejects ==
    /\ \A sender \in Actors, batchId \in BatchArgs :
           /\ (Admitted(sender) /\ ~BatchAt(batchId).exists) =>
                  requestBatchDecryptionResult(sender, batchId)
                      = "Batch not found"
           /\ (Admitted(sender) /\ BatchAt(batchId).exists
                                /\ ~BatchAt(batchId).closed) =>
                  requestBatchDecryptionResult(sender, batchId)
                      = "Batch not closed"
           /\ (Admitted(sender) /\ BatchAt(batchId).closed
                   /\ BatchAt(batchId).modelVersion = currentModelVersion
                   /\ AcceptedAt(batchId, currentModelVersion) = EmptyBag) =>
                  requestBatchDecryptionResult(sender, batchId) = "InvalidState"
           /\ ( \/ ~BatchAt(batchId).exists
                \/ ~BatchAt(batchId).closed
                \/ AcceptedAt(batchId, BatchAt(batchId).modelVersion)
                       = EmptyBag ) =>
                  requestBatchDecryptionResult(sender, batchId) # "ok"
    /\ \A r \in DOMAIN decryptionContexts :
           LET ctx == decryptionContexts[r] IN
           /\ BatchAt(ctx.batchId).exists
           /\ BatchAt(ctx.batchId).closed
           /\ SizeAt(ctx.batchId, ctx.modelVersion) > 0
           /\ AcceptedAt(ctx.batchId, ctx.modelVersion) # EmptyBag

\* a closed batch of the current version without contributions, refused,
\* while a batch that does not exist is refused as not found
C22_Witness ==
    \E sender \in Actors, batchId \in DOMAIN batches :
        /\ batches[batchId].closed
        /\ requestBatchDecryptionResult(sender, batchId) = "InvalidState"
        /\ requestBatchDecryptionResult(sender, ZeroId) = "Batch not found"

----------------------------------------------------------------------------
(* C23: a pending request has no timeout and blocks nothing.  A stored       *)
(* context is never removed, and a step after which a pending request is no  *)
(* longer pending is its successful callback: the step emits the request's   *)
(* DecryptionCompleted and nothing else ends the wait.  At whatever time, a  *)
(* pending request is still one the oracle's callback completes.  The        *)
(* outcomes of openBatch, submitCrop, closeBatch and requestBatchDecryption  *)
(* are settled by the roles, the pause flag, the caller's clock, the batch   *)
(* and its count alone, with or without pending requests; and a step that    *)
(* stores or completes a request changes the outcome of none of the four     *)
(* calls for the callers whose clock it leaves alone.                        *)

C23_Outcomes ==
    /\ \A r \in DOMAIN decryptionContexts :
           Pending(r) => OracleCallbackResult(r) = "ok"
    /\ \A sender \in Actors :
           openBatchResult(sender) = "ok" <=>
               (AdmittedProvider(sender) /\ ~BatchAt(openBatchId).exists)
    /\ \A sender \in Actors, batchId \in BatchArgs :
           LET batch == BatchAt(batchId) IN
           /\ closeBatchResult(sender, batchId) = "ok" <=>
                  /\ providers[sender] /\ ~paused
                  /\ batch.exists /\ ~batch.closed
           /\ submitCropResult(sender, batchId) = "ok" <=>
                  /\ AdmittedProvider(sender)
                  /\ batch.exists /\ ~batch.closed
                  /\ batch.modelVersion = currentModelVersion
                  /\ SizeAt(batchId, currentModelVersion) < batchSizeLimit
           /\ requestBatchDecryptionResult(sender, batchId) = "ok" <=>
                  /\ Admitted(sender)
                  /\ batch.exists /\ batch.closed
                  /\ batch.modelVersion = currentModelVersion
                  /\ AcceptedAt(batchId, currentModelVersion) # EmptyBag

C23_PendingStep ==
    /\ \A r \in DOMAIN decryptionContexts :
           /\ r \in DOMAIN decryptionContexts'
           /\ (Pending(r) /\ ~Pending(r)') =>
                  /\ OracleCallbackResult(r) = "ok"
                  /\ events' = Append(events,
                         DecryptionCompleted(r, decryptionContexts[r].batchId,
                                             TrueCleartext(r)))
    /\ decryptionContexts' # decryptionContexts =>
           \A sender \in Actors, batchId \in BatchArgs :
               lastActionAt'[sender] = lastActionAt[sender] =>
                   /\ openBatchResult(sender)' = openBatchResult(sender)
                   /\ closeBatchResult(sender, batchId)'
                          = closeBatchResult(sender, batchId)
                   /\ submitCropResult(sender, batchId)'
                          = submitCropResult(sender, batchId)
                   /\ requestBatchDecryptionResult(sender, batchId)'
                          = requestBatchDecryptionResult(sender, batchId)

C23_PendingNeverBlocks == []C23_Outcomes /\ [][C23_PendingStep]_vars

\* a request still pending a block after it was made, while a second batch
\* was opened after the request and the callback would still complete it
C23_Witness ==
    \E r \in DOMAIN decryptionContexts, i \in DOMAIN events, j \in DOMAIN events :
        /\ Pending(r)
        /\ OracleCallbackResult(r) = "ok"
        /\ events[i].name = "DecryptionRequested" /\ events[i].requestId = r
        /\ events[j].name = "BatchOpened"
        /\ i < j
        /\ now > BatchAt(events[j].batchId).createdAt

----------------------------------------------------------------------------
(* C24: currentModelVersion is 1 after the constructor and is the number of  *)
(* ModelVersionUpdated events emitted, the constructor's included.  A step   *)
(* that changes it is incrementModelVersion: the version grows by exactly 1, *)
(* the step emits ModelVersionUpdated(old, old + 1) and writes nothing else. *)
(* No step lowers it.  A batch and a context keep the version they were      *)
(* stamped with, a new batch and a new context are stamped with the current  *)
(* version, and so every stamp lies between 1 and the current version.       *)

C24_VersionBounds ==
    /\ events[1] = ModelVersionUpdated(0, 1)
    /\ currentModelVersion = CountEvents("ModelVersionUpdated")
    /\ currentModelVersion >= 1
    /\ \A batchId \in DOMAIN batches :
           /\ batches[batchId].modelVersion >= 1
           /\ batches[batchId].modelVersion <= currentModelVersion
    /\ \A r \in DOMAIN decryptionContexts :
           /\ decryptionContexts[r].modelVersion >= 1
           /\ decryptionContexts[r].modelVersion <= currentModelVersion

C24_VersionStep ==
    /\ currentModelVersion' >= currentModelVersion
    /\ currentModelVersion' # currentModelVersion =>
           /\ currentModelVersion' = currentModelVersion + 1
           /\ incrementModelVersionResult(owner) = "ok"
           /\ events' = Append(events,
                  ModelVersionUpdated(currentModelVersion,
                                      currentModelVersion + 1))
           /\ UNCHANGED <<config, lastActionAt, batches, decryptionContexts,
                          batchAccumulators, batchSizes, batchVersions,
                          counterRequest, requestedHandles, now, accepted>>
    /\ \A batchId \in DOMAIN batches' :
           batches'[batchId].modelVersion =
               IF batchId \in DOMAIN batches
               THEN batches[batchId].modelVersion
               ELSE currentModelVersion
    /\ \A r \in DOMAIN decryptionContexts' :
           decryptionContexts'[r].modelVersion =
               IF r \in DOMAIN decryptionContexts
               THEN decryptionContexts[r].modelVersion
               ELSE currentModelVersion
    /\ DOMAIN batches \subseteq DOMAIN batches'
    /\ DOMAIN decryptionContexts \subseteq DOMAIN decryptionContexts'

C24_VersionMonotone == []C24_VersionBounds /\ [][C24_VersionStep]_vars

\* after an increment: a closed batch and its consumed request, both stamped
\* with the version before the increment
C24_Witness ==
    \E batchId \in DOMAIN batches, r \in DOMAIN decryptionContexts :
        /\ currentModelVersion = batches[batchId].modelVersion + 1
        /\ batches[batchId].closed
        /\ decryptionContexts[r].batchId = batchId
        /\ decryptionContexts[r].modelVersion = batches[batchId].modelVersion
        /\ decryptionContexts[r].processed

----------------------------------------------------------------------------
(* C25: openBatch by a provider that passes the pause and cooldown checks    *)
(* reverts with "Batch exists" when the identifier derived from the current  *)
(* version and the timestamp is taken, and no sender opens a batch then.     *)
(* Every batch is stored under the identifier of its stamped version and     *)
(* its creation time, and the BatchOpened events carry pairwise distinct     *)
(* identifiers, one per stored batch.  A step taken while the identifier is  *)
(* taken emits no BatchOpened and leaves the version and the creation time   *)
(* of the record alone; a step that opens a batch stores it under an         *)
(* identifier that was free, changes no other record, and after it no        *)
(* sender opens another batch at the same timestamp under the same version.  *)

C25_Collision ==
    /\ \A sender \in Actors :
           BatchAt(openBatchId).exists =>
               /\ openBatchResult(sender) # "ok"
               /\ AdmittedProvider(sender) =>
                      openBatchResult(sender) = "Batch exists"
    /\ \A batchId \in DOMAIN batches :
           /\ batches[batchId].exists
           /\ batchId = BatchIdOf(batches[batchId].modelVersion,
                                  batches[batchId].createdAt)
           /\ Cardinality({i \in Positions("BatchOpened") :
                              events[i].batchId = batchId}) = 1
    /\ \A i \in Positions("BatchOpened") : events[i].batchId \in DOMAIN batches

C25_OpenStep ==
    /\ BatchAt(openBatchId).exists =>
           /\ Positions("BatchOpened")' = Positions("BatchOpened")
           /\ batches'[openBatchId].modelVersion
                  = batches[openBatchId].modelVersion
           /\ batches'[openBatchId].createdAt = batches[openBatchId].createdAt
    /\ Positions("BatchOpened")' # Positions("BatchOpened") =>
           /\ openBatchId \notin DOMAIN batches
           /\ DOMAIN batches' = DOMAIN batches \cup {openBatchId}
           /\ \A batchId \in DOMAIN batches :
                  batches'[batchId] = batches[batchId]
           /\ events' = Append(events,
                               BatchOpened(openBatchId, currentModelVersion))
           /\ \A sender \in Actors : openBatchResult(sender)' # "ok"

C25_OpenCollides == []C25_Collision /\ [][C25_OpenStep]_vars

\* two batches opened, and a provider that passes the pause and cooldown
\* checks refused because the second one took the identifier of this block
C25_Witness ==
    \E sender \in Actors :
        /\ Cardinality(DOMAIN batches) > 1
        /\ CountEvents("BatchOpened") = Cardinality(DOMAIN batches)
        /\ AdmittedProvider(sender)
        /\ openBatchResult(sender) = "Batch exists"

----------------------------------------------------------------------------
(* C26: while the contract is not paused, closeBatch by a provider succeeds  *)
(* on every batch that exists and is open, whatever its count, the limit,    *)
(* its stamped version and the provider's clock; it reverts with "Batch not  *)
(* found" on a batch that does not exist and with "Batch closed" on a closed *)
(* one.  A step that closes a batch sets closed and closedAt of that batch,  *)
(* emits its BatchClosed and changes no count.                               *)

C26_CloseOutcome ==
    \A sender \in Actors, batchId \in BatchArgs :
        (providers[sender] /\ ~paused) =>
            /\ (BatchAt(batchId).exists /\ ~BatchAt(batchId).closed) =>
                   closeBatchResult(sender, batchId) = "ok"
            /\ ~BatchAt(batchId).exists =>
                   closeBatchResult(sender, batchId) = "Batch not found"
            /\ BatchAt(batchId).closed =>
                   closeBatchResult(sender, batchId) = "Batch closed"

C26_CloseStep ==
    \A batchId \in DOMAIN batches :
        (~batches[batchId].closed /\ batches'[batchId].closed) =>
            /\ \E sender \in Actors : closeBatchResult(sender, batchId) = "ok"
            /\ batches' = Write(batches, batchId,
                                [batches[batchId] EXCEPT !.closed = TRUE,
                                                         !.closedAt = now])
            /\ events' = Append(events, BatchClosedEvent(batchId))
            /\ UNCHANGED <<batchSizes, batchAccumulators, lastActionAt>>

C26_CloseAlwaysAllowed == []C26_CloseOutcome /\ [][C26_CloseStep]_vars

\* a batch of an earlier version without contributions, just closed, while a
\* batch that does not exist is refused as not found
C26_Witness ==
    \E sender \in Actors, batchId \in DOMAIN batches :
        /\ events[Len(events)] = BatchClosedEvent(batchId)
        /\ batches[batchId].modelVersion < currentModelVersion
        /\ \A v \in Versions : SizeAt(batchId, v) = 0
        /\ closeBatchResult(sender, batchId) = "Batch closed"
        /\ closeBatchResult(sender, ZeroId) = "Batch not found"

----------------------------------------------------------------------------
(* C27: addProvider, removeProvider and setPaused are idempotent.  Called by *)
(* the owner, addProvider of a provider, removeProvider of an account that   *)
(* is no provider and setPaused with the value the flag has succeed, write   *)
(* the state they found and emit nothing.  In the log, ProviderAdded,        *)
(* ProviderRemoved, Paused and Unpaused each record a change: the step that  *)
(* emits one changes the mapping or the flag and nothing else, a change of   *)
(* the mapping or the flag emits exactly its event, and in the state after   *)
(* the step the same call writes nothing and emits nothing.                  *)

C27_NoOp ==
    /\ addProviderResult(owner) = "ok"
    /\ removeProviderResult(owner) = "ok"
    /\ setPausedResult(owner) = "ok"
    /\ \A provider \in Actors :
           /\ providers[provider] =>
                  /\ addProviderWrites(provider) = providers
                  /\ addProviderEmits(provider) = <<>>
           /\ ~providers[provider] =>
                  /\ removeProviderWrites(provider) = providers
                  /\ removeProviderEmits(provider) = <<>>
    /\ setPausedWrites(paused) = paused
    /\ setPausedEmits(owner, paused) = <<>>

\* the events a step adds to the log
C27_Emitted == SubSeq(events', Len(events) + 1, Len(events'))

C27_ChangeStep ==
    /\ \A provider \in Actors :
           /\ (~providers[provider] /\ providers'[provider]) <=>
                  C27_Emitted = <<ProviderAdded(provider)>>
           /\ (providers[provider] /\ ~providers'[provider]) <=>
                  C27_Emitted = <<ProviderRemoved(provider)>>
           /\ C27_Emitted = <<ProviderAdded(provider)>> =>
                  /\ addProviderWrites(provider)' = providers'
                  /\ addProviderEmits(provider)' = <<>>
                  /\ providers' = addProviderWrites(provider)
           /\ C27_Emitted = <<ProviderRemoved(provider)>> =>
                  /\ removeProviderWrites(provider)' = providers'
                  /\ removeProviderEmits(provider)' = <<>>
                  /\ providers' = removeProviderWrites(provider)
    /\ (~paused /\ paused') <=> C27_Emitted = <<PausedEvent(owner)>>
    /\ (paused /\ ~paused') <=> C27_Emitted = <<Unpaused(owner)>>
    /\ \A newPaused \in BOOLEAN :
           (paused # newPaused /\ paused' = newPaused) =>
               /\ setPausedWrites(newPaused)' = paused'
               /\ setPausedEmits(owner, newPaused)' = <<>>
               /\ paused' = setPausedWrites(newPaused)
    /\ (providers' # providers \/ paused' # paused) =>
           UNCHANGED <<owner, cooldownInterval, batchSizeLimit, lifecycle>>

C27_Idempotent == []C27_NoOp /\ [][C27_ChangeStep]_vars

\* a provider just added, with an earlier removal and a pause in the log: the
\* three calls repeated now would write nothing and emit nothing
C27_Witness ==
    \E p \in Actors, q \in Actors :
        /\ events[Len(events)] = ProviderAdded(p)
        /\ \E i \in DOMAIN events : events[i] = ProviderRemoved(q)
        /\ \E i \in DOMAIN events : events[i] = PausedEvent(owner)
        /\ paused
        /\ ~providers[q]
        /\ addProviderEmits(p) = <<>>
        /\ removeProviderEmits(q) = <<>>
        /\ setPausedEmits(owner, TRUE) = <<>>

----------------------------------------------------------------------------
(* C28: setBatchSizeLimit(0) reverts, with "Invalid limit" for the owner,    *)
(* so batchSizeLimit is greater than 0 in every state: a step changes it     *)
(* only to a limit greater than 0 that the owner's call passes.  An open     *)
(* batch of the current version without contributions takes a contribution   *)
(* from every provider that passes the pause and cooldown checks, and the    *)
(* batch a step opens is such a batch.                                       *)

C28_LimitPositive ==
    /\ batchSizeLimit > 0
    /\ setBatchSizeLimitResult(owner, 0) = "Invalid limit"
    /\ \A sender \in Actors : setBatchSizeLimitResult(sender, 0) # "ok"
    /\ \A sender \in Actors, batchId \in DOMAIN batches :
           ( /\ AdmittedProvider(sender)
             /\ ~batches[batchId].closed
             /\ batches[batchId].modelVersion = currentModelVersion
             /\ SizeAt(batchId, currentModelVersion) = 0 ) =>
               submitCropResult(sender, batchId) = "ok"

C28_LimitStep ==
    /\ batchSizeLimit' # batchSizeLimit =>
           /\ batchSizeLimit' > 0
           /\ setBatchSizeLimitResult(owner, batchSizeLimit') = "ok"
    /\ \A batchId \in DOMAIN batches' \ DOMAIN batches :
           /\ ~batches'[batchId].closed
           /\ batches'[batchId].modelVersion = currentModelVersion'
           /\ SizeAt(batchId, currentModelVersion)' = 0
           /\ SizeAt(batchId, currentModelVersion)' < batchSizeLimit'

C28_CapacityPositive == []C28_LimitPositive /\ [][C28_LimitStep]_vars

\* under the smallest limit, a batch without contributions that takes one,
\* while the limit 0 is refused
C28_Witness ==
    \E sender \in Actors, batchId \in DOMAIN batches :
        /\ batchSizeLimit < DefaultBatchSizeLimit
        /\ SizeAt(batchId, currentModelVersion) = 0
        /\ submitCropResult(sender, batchId) = "ok"
        /\ setBatchSizeLimitResult(owner, 0) = "Invalid limit"

----------------------------------------------------------------------------
(* C29: the log determines the stored state.  Replaying the log, the         *)
(* constructor's events first, over the storage the contract is deployed     *)
(* with (the deployer as owner, the declared cooldown and limit, nothing     *)
(* else set) gives the owner, the providers, the pause flag, the cooldown,   *)
(* the limit and the model version of the state, the batches that exist with *)
(* their closed flag and stamped version, the count of every (batch,         *)
(* version), which is the number of its CropSubmitted events, and the        *)
(* requests that exist with their processed flag.                            *)

\* the storage before the constructor's events
C29_Deployed ==
    [owner |-> Deployer,
     providers |-> [a \in Actors |-> FALSE],
     paused |-> FALSE,
     cooldownInterval |-> DefaultCooldown,
     batchSizeLimit |-> DefaultBatchSizeLimit,
     currentModelVersion |-> 0,
     batches |-> <<>>,
     batchSizes |-> <<>>,
     requests |-> <<>>]

\* the effect of one event on the replayed storage
C29_Apply(st, e) ==
    CASE e.name = "OwnershipTransferred" -> [st EXCEPT !.owner = e.account]
      [] e.name = "ProviderAdded" ->
             [st EXCEPT !.providers[e.account] = TRUE]
      [] e.name = "ProviderRemoved" ->
             [st EXCEPT !.providers[e.account] = FALSE]
      [] e.name = "Paused" -> [st EXCEPT !.paused = TRUE]
      [] e.name = "Unpaused" -> [st EXCEPT !.paused = FALSE]
      [] e.name = "CooldownUpdated" ->
             [st EXCEPT !.cooldownInterval = e.newValue]
      [] e.name = "BatchSizeLimitUpdated" ->
             [st EXCEPT !.batchSizeLimit = e.newValue]
      [] e.name = "ModelVersionUpdated" ->
             [st EXCEPT !.currentModelVersion = e.modelVersion]
      [] e.name = "BatchOpened" ->
             [st EXCEPT !.batches =
                 Write(st.batches, e.batchId,
                       [closed |-> FALSE, modelVersion |-> e.modelVersion])]
      [] e.name = "BatchClosed" ->
             [st EXCEPT !.batches[e.batchId].closed = TRUE]
      [] e.name = "CropSubmitted" ->
             [st EXCEPT !.batchSizes =
                 Write(st.batchSizes, <<e.batchId, e.modelVersion>>,
                       Read(st.batchSizes, <<e.batchId, e.modelVersion>>, 0)
                           + 1)]
      [] e.name = "DecryptionRequested" ->
             [st EXCEPT !.requests = Write(st.requests, e.requestId, FALSE)]
      [] e.name = "DecryptionCompleted" ->
             [st EXCEPT !.requests = Write(st.requests, e.requestId, TRUE)]

\* the storage replayed from the first n events of the log
RECURSIVE C29_Replay(_)
C29_Replay(n) ==
    IF n = 0 THEN C29_Deployed ELSE C29_Apply(C29_Replay(n - 1), events[n])

C29_LogReconstructsState ==
    LET st == C29_Replay(Len(events)) IN
    /\ st.owner = owner
    /\ st.providers = providers
    /\ st.paused = paused
    /\ st.cooldownInterval = cooldownInterval
    /\ st.batchSizeLimit = batchSizeLimit
    /\ st.currentModelVersion = currentModelVersion
    /\ DOMAIN st.batches = DOMAIN batches
    /\ \A batchId \in DOMAIN batches :
           /\ batches[batchId].exists
           /\ st.batches[batchId].closed = batches[batchId].closed
           /\ st.batches[batchId].modelVersion = batches[batchId].modelVersion
    /\ st.batchSizes = batchSizes
    /\ \A key \in Keys :
           SizeAt(key[1], key[2]) =
               Cardinality({i \in Positions("CropSubmitted") :
                               /\ events[i].batchId = key[1]
                               /\ events[i].modelVersion = key[2]})
    /\ DOMAIN st.requests = DOMAIN decryptionContexts
    /\ \A r \in DOMAIN decryptionContexts :
           st.requests[r] = decryptionContexts[r].processed

\* after a transfer of the ownership: a closed batch that holds a
\* contribution and has a request
C29_Witness ==
    \E batchId \in DOMAIN batches, r \in DOMAIN decryptionContexts :
        /\ logAdmin
        /\ owner # Deployer
        /\ batches[batchId].closed
        /\ SizeAt(batchId, batches[batchId].modelVersion) > 0
        /\ decryptionContexts[r].batchId = batchId

----------------------------------------------------------------------------
(* C30: the order of the events of a batch.  Every event that names a batch  *)
(* names a stored one.  A batch has exactly one BatchOpened, before every    *)
(* other event of the batch, and at most one BatchClosed, which it has       *)
(* exactly when it is closed.  Every CropSubmitted of the batch comes before *)
(* its BatchClosed and every DecryptionRequested and DecryptionCompleted of  *)
(* the batch after it.  Every DecryptionCompleted(r, b) comes after a        *)
(* DecryptionRequested(r, b) of the same request and batch.                  *)

\* the positions of the events with the given name and batch
C30_Of(name, batchId) ==
    {i \in Positions(name) : events[i].batchId = batchId}

C30_EventOrder ==
    /\ \A i \in DOMAIN events :
           events[i].name # "ModelVersionUpdated" =>
               events[i].batchId \in DOMAIN batches
    /\ \A batchId \in DOMAIN batches :
           LET opened == C30_Of("BatchOpened", batchId)
               submitted == C30_Of("CropSubmitted", batchId)
               closed == C30_Of("BatchClosed", batchId)
               requested == C30_Of("DecryptionRequested", batchId)
               completed == C30_Of("DecryptionCompleted", batchId)
           IN
           /\ Cardinality(opened) = 1
           /\ Cardinality(closed) = (IF batches[batchId].closed THEN 1 ELSE 0)
           /\ \A o \in opened :
                  \A i \in submitted \cup closed \cup requested \cup completed :
                      o < i
           /\ \A s \in submitted : \A c \in closed : s < c
           /\ \A q \in requested \cup completed :
                  \E c \in closed : c < q
           /\ \A j \in completed :
                  \E i \in requested :
                      /\ i < j
                      /\ events[i].requestId = events[j].requestId

\* a batch with its five events: opened, a contribution, closed, requested,
\* completed
C30_Witness ==
    \E batchId \in DOMAIN batches :
        /\ C30_Of("CropSubmitted", batchId) # {}
        /\ C30_Of("DecryptionRequested", batchId) # {}
        /\ C30_Of("DecryptionCompleted", batchId) # {}
        /\ events[Len(events)].name = "DecryptionCompleted"

----------------------------------------------------------------------------
(* C31: the batch records change in openBatch and closeBatch only.  A step   *)
(* that changes the records either stores one new record, open and stamped   *)
(* with the current version and time, under the identifier openBatch         *)
(* derives, for a sender that passes the checks of openBatch, and emits its  *)
(* BatchOpened; or sets closed and closedAt of one open batch, for a sender  *)
(* that passes the checks of closeBatch on it, and emits its BatchClosed.    *)
(* A step that emits neither event (submitCrop, requestBatchDecryption,      *)
(* onBatchDecrypted and the calls of the owner) leaves every record as it    *)
(* was.                                                                      *)

C31_Opens ==
    /\ \E sender \in Actors : openBatchResult(sender) = "ok"
    /\ openBatchId \notin DOMAIN batches
    /\ batches' = Write(batches, openBatchId,
                        [exists |-> TRUE, closed |-> FALSE, createdAt |-> now,
                         closedAt |-> 0, modelVersion |-> currentModelVersion])
    /\ events' = Append(events, BatchOpened(openBatchId, currentModelVersion))

C31_Closes ==
    \E batchId \in DOMAIN batches :
        /\ \E sender \in Actors : closeBatchResult(sender, batchId) = "ok"
        /\ batches' = Write(batches, batchId,
                            [batches[batchId] EXCEPT !.closed = TRUE,
                                                     !.closedAt = now])
        /\ events' = Append(events, BatchClosedEvent(batchId))

C31_FrameStep ==
    /\ batches' # batches => (C31_Opens \/ C31_Closes)
    /\ ( \/ events' = events
         \/ events'[Len(events')].name \notin {"BatchOpened", "BatchClosed"} )
           => UNCHANGED batches
    /\ ( \/ config' # config
         \/ currentModelVersion' # currentModelVersion
         \/ decryptionContexts' # decryptionContexts
         \/ batchSizes' # batchSizes
         \/ batchAccumulators' # batchAccumulators )
           => UNCHANGED batches

C31_OnlyOpenAndCloseWriteBatches == [][C31_FrameStep]_vars

\* a batch closed in an earlier block, after which a request was made and
\* completed and the owner paused the contract: the record holds the time of
\* the close
C31_Witness ==
    \E batchId \in DOMAIN batches, r \in DOMAIN decryptionContexts :
        /\ batches[batchId].closed
        /\ batches[batchId].closedAt < now
        /\ decryptionContexts[r].batchId = batchId
        /\ decryptionContexts[r].processed
        /\ paused

----------------------------------------------------------------------------
(* C32: every stored context agrees with its batch.  It names a requester,   *)
(* its batch exists and is closed, the batch is stamped with the version the *)
(* context records, the accumulator of the batch under that version is       *)
(* initialized and its hash is the hash the context stores.  So a callback   *)
(* for a stored context, whatever cleartext and proof it carries, reverts    *)
(* with "Request processed" when the context is processed, with InvalidProof *)
(* when the signatures do not verify, and succeeds otherwise: the checks of  *)
(* the batch, the version, the accumulator and the hash never reject it.     *)

C32_ContextsConsistent ==
    \A r \in DOMAIN decryptionContexts :
        LET ctx == decryptionContexts[r]
            acc == AccumulatorAt(ctx.batchId, ctx.modelVersion)
        IN
        /\ ctx.requester # NoAddr
        /\ BatchAt(ctx.batchId).exists
        /\ BatchAt(ctx.batchId).closed
        /\ BatchAt(ctx.batchId).modelVersion = ctx.modelVersion
        /\ isInitialized(acc)
        /\ hashCiphertexts(<<toBytes32(acc)>>) = ctx.stateHash
        /\ \A cleartexts \in CleartextArgs(r), proof \in Proofs :
               onBatchDecryptedResult(r, cleartexts, proof) =
                   IF ctx.processed THEN "Request processed"
                   ELSE IF checkSignatures(r, cleartexts, proof) THEN "ok"
                   ELSE "InvalidProof"

\* a pending context of a batch of an earlier version, in a paused contract:
\* the callback with the signed cleartext succeeds and a forged proof is the
\* one thing that fails it
C32_Witness ==
    \E r \in DOMAIN decryptionContexts :
        /\ ~decryptionContexts[r].processed
        /\ decryptionContexts[r].modelVersion < currentModelVersion
        /\ paused
        /\ onBatchDecryptedResult(r, TrueCleartext(r), "kms") = "ok"
        /\ onBatchDecryptedResult(r, TrueCleartext(r), "forged") = "InvalidProof"

----------------------------------------------------------------------------
(* C33: the reveal completes.  Under an oracle that delivers, a request that *)
(* is pending leads to the request being completed (its context processed    *)
(* and its DecryptionCompleted in the log), whatever calls of the owner and  *)
(* of the batch lifecycle come between: pausing, increments of the version,  *)
(* changes of the limit and the cooldown, removals of providers, transfers   *)
(* of the ownership, further requests and callbacks.                         *)

C33_Completed(r) ==
    /\ r \in DOMAIN decryptionContexts
    /\ decryptionContexts[r].processed
    /\ EventsOf("DecryptionCompleted", r) # {}

C33_RevealCompletes ==
    /\ [](DOMAIN decryptionContexts \subseteq RequestIds)
    /\ \A r \in RequestIds : Pending(r) ~> C33_Completed(r)

\* a request completed in a contract that is paused, whose version was
\* incremented after the request and whose requester is no provider
C33_Witness ==
    \E r \in DOMAIN decryptionContexts :
        /\ C33_Completed(r)
        /\ events[Len(events)].name = "DecryptionCompleted"
        /\ events[Len(events)].requestId = r
        /\ paused
        /\ decryptionContexts[r].modelVersion < currentModelVersion
        /\ ~providers[decryptionContexts[r].requester]

----------------------------------------------------------------------------
(* C34: accumulators and counts go together.  For every key (batchId,        *)
(* version) the accumulator is initialized exactly when the count is above   *)
(* 0, and the three mappings hold the same keys.  A key with a count above   *)
(* 0 belongs to a batch that exists and is stamped with the key's version,   *)
(* so a batch has at most one initialized accumulator.  For a sender that    *)
(* passes the pause and cooldown checks and a closed batch of the current    *)
(* version, requestBatchDecryption succeeds when a contribution was accepted *)
(* into the batch and reverts with InvalidState when none was.               *)

C34_AccumulatorsAndCounts ==
    /\ DOMAIN batchAccumulators = DOMAIN batchSizes
    /\ DOMAIN batchVersions = DOMAIN batchSizes
    /\ DOMAIN batchSizes \subseteq Keys
    /\ \A key \in Keys :
           /\ isInitialized(AccumulatorAt(key[1], key[2]))
                  <=> SizeAt(key[1], key[2]) > 0
           /\ SizeAt(key[1], key[2]) > 0 =>
                  /\ BatchAt(key[1]).exists
                  /\ key[2] = BatchAt(key[1]).modelVersion
    /\ \A batchId \in BatchArgs :
           Cardinality({v \in Versions :
                           isInitialized(AccumulatorAt(batchId, v))}) <= 1
    /\ \A sender \in Actors, batchId \in DOMAIN batches :
           ( /\ Admitted(sender)
             /\ batches[batchId].closed
             /\ batches[batchId].modelVersion = currentModelVersion ) =>
               requestBatchDecryptionResult(sender, batchId) =
                   IF AcceptedAt(batchId, currentModelVersion) # EmptyBag
                   THEN "ok" ELSE "InvalidState"

\* after an increment of the version: a closed batch with contributions
\* under its stamped version and none under the current one
C34_Witness ==
    \E batchId \in DOMAIN batches :
        /\ batches[batchId].closed
        /\ batches[batchId].modelVersion < currentModelVersion
        /\ SizeAt(batchId, batches[batchId].modelVersion) > 0
        /\ isInitialized(AccumulatorAt(batchId, batches[batchId].modelVersion))
        /\ SizeAt(batchId, currentModelVersion) = 0
        /\ ~isInitialized(AccumulatorAt(batchId, currentModelVersion))

----------------------------------------------------------------------------
(* C35: closeBatch is outside the rate limiter.  A provider whose last       *)
(* rate-limited call is less than the cooldown interval ago closes an open   *)
(* batch all the same, while the contract is not paused.  A step that closes *)
(* a batch leaves lastActionAt of every actor as it was, so after it every   *)
(* actor stands at the rate limiter as before: openBatch has the outcome it  *)
(* had, and submitCrop and requestBatchDecryption revert with TooFrequent    *)
(* only where they did before.                                               *)

C35_ClosesWithinCooldown ==
    \A sender \in Actors, batchId \in DOMAIN batches :
        ( /\ providers[sender]
          /\ ~paused
          /\ C16_TooSoon(sender)
          /\ ~batches[batchId].closed ) =>
            closeBatchResult(sender, batchId) = "ok"

C35_CloseStep ==
    (events' # events /\ events'[Len(events')].name = "BatchClosed") =>
        /\ UNCHANGED lastActionAt
        /\ \A a \in Actors :
               /\ C16_TooSoon(a)' = C16_TooSoon(a)
               /\ openBatchResult(a)' = openBatchResult(a)
               /\ \A batchId \in BatchArgs :
                      /\ submitCropResult(a, batchId)' = "TooFrequent" =>
                             submitCropResult(a, batchId) = "TooFrequent"
                      /\ requestBatchDecryptionResult(a, batchId)' = "TooFrequent"
                             => requestBatchDecryptionResult(a, batchId)
                                    = "TooFrequent"

C35_CloseNotRateLimited == []C35_ClosesWithinCooldown /\ [][C35_CloseStep]_vars

\* a batch opened and closed in the same block by the one provider, which
\* made its rate-limited call of the block when it opened the batch
C35_Witness ==
    \E batchId \in DOMAIN batches :
        /\ events[Len(events)] = BatchClosedEvent(batchId)
        /\ batches[batchId].createdAt = now
        /\ batches[batchId].closedAt = now
        /\ \A a \in Actors : providers[a] <=> a = Deployer
        /\ lastActionAt[Deployer] = now
        /\ C16_TooSoon(Deployer)

----------------------------------------------------------------------------
(* C36: transferOwnership changes the owner and nothing else.  The step that *)
(* emits OwnershipTransferred(previous, new) is made by the owner, sets the  *)
(* owner to the new one and leaves the providers, the pause flag, the        *)
(* cooldown, the limit, the version, the batches, the accumulators, the      *)
(* counts and the contexts as they were; the owner changes in no other step. *)
(* So the deployer, a provider by the constructor, is one until a            *)
(* ProviderRemoved names it, and whoever is a provider has a ProviderAdded   *)
(* in the log: owning the contract makes nobody a provider.                  *)

C36_ProvidersByTheLog ==
    /\ \A a \in Actors :
           providers[a] => \E i \in DOMAIN events : events[i] = ProviderAdded(a)
    /\ ~providers[Deployer] =>
           \E i \in DOMAIN events : events[i] = ProviderRemoved(Deployer)
    /\ transferOwnershipResult(owner) = "ok"

C36_TransferStep ==
    /\ owner' # owner =>
           events' = Append(events, OwnershipTransferred(owner, owner'))
    /\ (events' # events
            /\ events'[Len(events')].name = "OwnershipTransferred") =>
           /\ events' = Append(events, OwnershipTransferred(owner, owner'))
           /\ UNCHANGED <<providers, paused, cooldownInterval, batchSizeLimit,
                          lifecycle>>

C36_TransferChangesOwnerOnly ==
    []C36_ProvidersByTheLog /\ [][C36_TransferStep]_vars

\* the ownership just passed from the deployer to an account that is no
\* provider: the deployer is still one and the new owner is still none
C36_Witness ==
    /\ logAdmin
    /\ owner # Deployer
    /\ events[Len(events)] = OwnershipTransferred(Deployer, owner)
    /\ providers[Deployer]
    /\ ~providers[owner]
    /\ CountEvents("BatchOpened") > 0

----------------------------------------------------------------------------
(* C37 as stated: in every state cooldownInterval is at least MIN_INTERVAL,  *)
(* whatever intervals the owner sets, so the rate limiter always rejects a   *)
(* second rate-limited call of an actor in the same block.                   *)

C37_CooldownAtLeastMinimum ==
    /\ cooldownInterval >= MIN_INTERVAL
    /\ \A a \in Actors : lastActionAt[a] = now => C16_TooSoon(a)

\* what the code does keep: the interval is the default or the argument of
\* the owner's last setCooldownInterval, and a step changes it only to such
\* an argument
C37_CooldownIsWhatTheOwnerSet ==
    /\ cooldownInterval \in CooldownArgs
    /\ cooldownInterval >= 0
    /\ \A sender \in Actors :
           setCooldownIntervalResult(sender) =
               IF sender = owner THEN "ok" ELSE "NotOwner"

\* the rate limiter switched off: the interval is 0 and an actor made two
\* rate-limited calls in one block
C37_RateLimiterOff ==
    \E a \in Actors, i \in DOMAIN events, j \in DOMAIN events :
        /\ cooldownInterval = 0
        /\ i < j
        /\ events[i].name \in C16_RateLimited
        /\ events[j].name = "DecryptionRequested"
        /\ events[j].account = a
        /\ (events[i].account = a \/ events[i].name = "BatchOpened")
        /\ lastActionAt[a] = now
        /\ ~C16_TooSoon(a)
        /\ \A b \in Actors \ {a} : lastActionAt[b] = 0
        /\ now = StartTime

====
